---- MODULE Spec2Model ----
(***************************************************************************)
(* Push relay (metaid-developers/push-base-service).                        *)
(*                                                                         *)
(* The module holds one state machine per component of the relay pipeline: *)
(*   SpecRelay    the envelope-to-dispatch state machine of PushCenter     *)
(*   SpecMute     one relay task with chats blocked and unblocked meanwhile *)
(*   SpecTokSeq   the token keyspaces of PebbleService, called one at a    *)
(*                time                                                     *)
(*   SpecTokConc  PebbleService.SetUserToken called by two tasks at once,  *)
(*                one store access per step                                *)
(*   SpecRetry    the retry loops of expo_service.Service                  *)
(*   SpecDispatch DefaultPushService.SendToUsers                           *)
(*   SpecPage     a client paging through PebbleService.GetUserTokensList  *)
(*   SpecBlock    AddBlockedChat / RemoveBlockedChat called by two tasks,  *)
(*                one store access per step                                *)
(*   SpecSup      PushCenter.Run / Stop with a relay task in flight        *)
(*   SpecMuteFair the relay task under fair scheduling                     *)
(*   SpecText     the notification title and body                          *)
(*   SpecSock     the upstream session: the socket Client, its events and  *)
(*                its heartbeat                                            *)
(*   SpecSockFair the session with its heartbeat ticks scheduled fairly    *)
(*   SpecFail     one relay task, step by step, with failing store reads   *)
(*                and Dispatcher calls                                     *)
(*   SpecColl     CollectionManager.GetCollection called by two tasks, and *)
(*                CloseAll                                                 *)
(*   SpecHooks    the socket Manager and the lifecycle hooks of its Client *)
(* Every specification leaves the variables of the other components at     *)
(* their initial value.                                                    *)
(***************************************************************************)
EXTENDS Integers, Sequences, FiniteSets, Bags, TLC

VARIABLES
    \* ---- relay (pushcenter) ----
    notifiedPins,   \* keys of the notified_pins keyspace
    blockedChats,   \* blocked_chats keyspace: user -> sequence of chat ids
    task,           \* relay task -> its position and locals
    pinRemoved,     \* history: pins an operator removed from notified_pins
    \* ---- token keyspaces (pebble_service) ----
    userTokens,     \* user_tokens keyspace: meta id -> NoRec or platform -> token
    devices,        \* devices keyspace: token -> NoDev or [MetaID, Platform]
    call,           \* caller -> the SetUserToken call it is running
    store0,         \* history: the keyspaces when the concurrent calls began
    lastOp,         \* history: the last completed sequential call
    prevOp,         \* history: the sequential call completed before lastOp
    \* ---- expo service retry loops ----
    svc,
    \* ---- dispatcher ----
    disp,
    \* ---- management API ----
    pager,          \* a client reading list_user_tokens page after page
    blockRecs,      \* blocked_chats keyspace, key by key: user -> record or none
    bcall,          \* caller -> the add/remove_blocked_chat call it is running
    \* ---- supervisor (PushCenter Run / Stop) ----
    sup,
    \* ---- notification text ----
    note,           \* the last title and body composed, with their inputs
    sock,           \* the upstream session: the socket Client and its socket
    \* ---- store keyspaces ----
    cm,             \* the CollectionManager and the tasks calling GetCollection
    \* ---- session hooks ----
    mgr             \* the socket Manager: the hooks of its Client, the hooks fired

relayVars == <<notifiedPins, blockedChats, task, pinRemoved>>
tokVars   == <<userTokens, devices, call, store0, lastOp, prevOp>>
vars      == <<notifiedPins, blockedChats, task, pinRemoved,
               userTokens, devices, call, store0, lastOp, prevOp, svc, disp,
               pager, blockRecs, bcall, sup, note, sock, cm, mgr>>
blockVars == <<blockRecs, bcall>>
apiVars   == <<pager, blockRecs, bcall, sup, note, sock, cm, mgr>>

\* ---------------------------------------------------------------- helpers
Range(s) == {s[i] : i \in 1..Len(s)}

Contains(s, x) == \E i \in 1..Len(s) : s[i] = x

RECURSIVE SelectSeqNotIn(_, _)
\* the elements of s that are not in the sequence t, in order
SelectSeqNotIn(s, t) ==
    IF s = <<>> THEN <<>>
    ELSE IF Contains(t, Head(s)) THEN SelectSeqNotIn(Tail(s), t)
         ELSE <<Head(s)>> \o SelectSeqNotIn(Tail(s), t)

\* ---------------------------------------------------------------- domains
Users == {"u1", "u2"}
Tasks == {"t1", "t2"}
Chats == {"u1", "g1"}

NoEnv == [type |-> "none"]

\* ExtraServiceMessage.Message: nil, or the decoded JSON object
NilMessage == [kind |-> "nil", pinId |-> "", metaId |-> "", groupId |-> ""]

MapMessages ==
    {[kind |-> "map", pinId |-> p, metaId |-> m, groupId |-> g] :
        p \in {"", "p1"}, m \in {"", "u1"}, g \in {"", "g1"}}

RepostLists  == {<<>>, <<"u1">>, <<"u2">>, <<"u1", "u2">>}
MentionLists == {<<>>, <<"u1">>}

\* the (user, chat) pairs the management API blocks and unblocks
BlockPairs == {<<"u1", "g1">>, <<"u2", "u1">>}

\* the chat notifications the socket client hands to the handler
TypedMessages ==
    {tm \in {"private_chat", "group_chat"} \X MapMessages :
        IF tm[1] = "private_chat" THEN tm[2].groupId = "" ELSE tm[2].metaId = ""}

Envelopes ==
    {[type |-> tm[1], hasData |-> TRUE, msg |-> tm[2], repost |-> r, mention |-> mn] :
        tm \in TypedMessages, r \in RepostLists, mn \in MentionLists}
    \cup {[type |-> "private_chat", hasData |-> TRUE, msg |-> NilMessage,
           repost |-> <<"u2">>, mention |-> <<>>],
          [type |-> "group_chat", hasData |-> FALSE, msg |-> NilMessage,
           repost |-> <<>>, mention |-> <<>>]}

\* ================================================================ RELAY
\* Config.EnabledTypes as NewPushCenter defaults it
EnabledTypes == {"private_chat", "group_chat"}

isMessageTypeEnabled(msgType) == msgType \in EnabledTypes

\* PushCenter.parseMessageInfo: the ids the relay reads from the message
parseMessageInfo(env) ==
    [ChatType |-> env.type,
     PinId    |-> IF env.msg.kind = "map" THEN env.msg.pinId ELSE "",
     MetaId   |-> IF env.msg.kind = "map" /\ env.type = "private_chat"
                  THEN env.msg.metaId ELSE "",
     GroupId  |-> IF env.msg.kind = "map" /\ env.type = "group_chat"
                  THEN env.msg.groupId ELSE ""]

\* the chat id filterBlockedUsers derives for an envelope
ChatIdOf(info) ==
    IF info.ChatType = "private_chat" THEN info.MetaId
    ELSE IF info.ChatType = "group_chat" THEN info.GroupId
    ELSE ""

\* PebbleService.IsBlockedChat behind pebble_service.IsUserBlockedChat:
\* "err" for an empty argument, else whether the chat is in the user's list
IsUserBlockedChat(blocked, metaID, chatID) ==
    IF metaID = "" \/ chatID = "" THEN "err"
    ELSE IF Contains(blocked[metaID], chatID) THEN "blocked"
    ELSE "free"

\* one iteration of the loop of filterBlockedUsers for a given answer of
\* IsUserBlockedChat ("blocked", "free" or "err"): the filtered list after
\* looking at metaId; a recipient is left out when isBlocked, kept on an error
LeftOutUnlessFree(answer) == answer # "free"

LeftOut(answer) == answer = "blocked"

FilterWith(info, filtered, metaId, answer) ==
    IF info.ChatType = "private_chat" /\ metaId = info.MetaId THEN filtered
    ELSE IF ChatIdOf(info) = "" THEN Append(filtered, metaId)
    ELSE IF LeftOut(answer) THEN filtered
         ELSE Append(filtered, metaId)

\* the iteration with the answer the store gives
FilterOneUnfiltered(blocked, info, filtered, metaId) == Append(filtered, metaId)

FilterOne(blocked, info, filtered, metaId) ==
    FilterWith(info, filtered, metaId,
               IsUserBlockedChat(blocked, metaId, ChatIdOf(info)))

\* the normalUsers of processChatMessage
NormalUsers(filtered, mentionMetaIds) == SelectSeqNotIn(filtered, mentionMetaIds)

IdleTask ==
    [pc |-> "idle", env |-> NoEnv, i |-> 0, filtered |-> <<>>,
     calls |-> <<>>, free |-> {}, log |-> <<>>, looked |-> {}, failed |-> {}]

\* the users for whom the chat of the envelope is not blocked right now
FreeNow(blocked, env) ==
    {u \in Users :
        IsUserBlockedChat(blocked, u, ChatIdOf(parseMessageInfo(env))) # "blocked"}

Processing(t) == task[t].pc \in {"dedup", "filter", "mention", "plain", "record"}

\* the handler SetChatMessageHandler installs: drops or starts a relay task
Receive(t, env) ==
    /\ task[t].pc = "idle"
    /\ t = "t1" \/ task["t1"].pc # "idle"
    /\ task' = [task EXCEPT ![t] =
         [IdleTask EXCEPT
            !.pc = IF env.hasData /\ isMessageTypeEnabled(env.type)
                   THEN "dedup" ELSE "done",
            !.env = env,
            !.free = FreeNow(blockedChats, env)]]
    /\ UNCHANGED <<notifiedPins, blockedChats, pinRemoved>>

\* an empty recipient list is not looked at
NoRecipientsIgnored(metaIds) == FALSE

\* if len(metaIds) == 0 { return }
NoRecipients(metaIds) == Len(metaIds) = 0

\* processChatMessage up to the recipient list: parse, dedup read, recipients
Dedup(t) ==
    LET env  == task[t].env
        info == parseMessageInfo(env)
    IN  /\ task[t].pc = "dedup"
        /\ task' = [task EXCEPT ![t].pc =
             IF env.msg.kind = "nil" THEN "done"
             ELSE IF info.PinId # "" /\ info.PinId \in notifiedPins THEN "done"
             ELSE IF NoRecipients(env.repost) THEN "done"
             ELSE "filter",
             ![t].i = 1]
        /\ UNCHANGED <<notifiedPins, blockedChats, pinRemoved>>

\* the return on an empty filtered list, were it not commented out
SkipWhenAllMutedActive(filtered) == Len(filtered) = 0

\* // if len(filteredMetaIds) == 0 { return }: commented out, never a return
SkipWhenAllMuted(filtered) == FALSE

\* filterBlockedUsers, one recipient (one store read) per step
Filter(t) ==
    LET env  == task[t].env
        info == parseMessageInfo(env)
        i    == task[t].i
    IN  /\ task[t].pc = "filter"
        /\ IF i <= Len(env.repost)
           THEN task' = [task EXCEPT
                    ![t].filtered = FilterOne(blockedChats, info, @, env.repost[i]),
                    ![t].i = i + 1]
           ELSE task' = [task EXCEPT ![t].pc = IF SkipWhenAllMuted(task[t].filtered)
                                               THEN "done" ELSE "mention"]
        /\ UNCHANGED <<notifiedPins, blockedChats, pinRemoved>>

\* the Dispatcher call for the mentioned users
Mention(t) ==
    LET env == task[t].env
    IN  /\ task[t].pc = "mention"
        /\ task' = [task EXCEPT ![t].pc = "plain",
             ![t].calls = IF Len(env.mention) > 0
                          THEN Append(@, [kind |-> "mention", to |-> env.mention])
                          ELSE @]
        /\ UNCHANGED <<notifiedPins, blockedChats, pinRemoved>>

\* the Dispatcher call for the normal users
Plain(t) ==
    LET env    == task[t].env
        normal == NormalUsers(task[t].filtered, env.mention)
    IN  /\ task[t].pc = "plain"
        /\ task' = [task EXCEPT ![t].pc = "record",
             ![t].calls = IF Len(normal) > 0
                          THEN Append(@, [kind |-> "plain", to |-> normal])
                          ELSE @]
        /\ UNCHANGED <<notifiedPins, blockedChats, pinRemoved>>

\* the end of processChatMessage: go AddNotifiedPin when there is a pin
RecordNoPin(t) ==
    /\ task[t].pc = "record"
    /\ task' = [task EXCEPT ![t].pc = "done"]
    /\ UNCHANGED <<notifiedPins, blockedChats, pinRemoved>>

Record(t) ==
    /\ task[t].pc = "record"
    /\ task' = [task EXCEPT ![t].pc =
         IF parseMessageInfo(task[t].env).PinId # "" THEN "addpin" ELSE "done"]
    /\ UNCHANGED <<notifiedPins, blockedChats, pinRemoved>>

\* the goroutine running pebble_service.AddNotifiedPin
AddNotifiedPin(t) ==
    /\ task[t].pc = "addpin"
    /\ notifiedPins' = notifiedPins \cup {parseMessageInfo(task[t].env).PinId}
    /\ task' = [task EXCEPT ![t].pc = "done"]
    /\ UNCHANGED <<blockedChats, pinRemoved>>

\* an operator pruning notified_pins
RemoveNotifiedPin(p) ==
    /\ p # ""
    /\ p \in notifiedPins
    /\ notifiedPins' = notifiedPins \ {p}
    /\ pinRemoved' = pinRemoved \cup {p}
    /\ UNCHANGED <<blockedChats, task>>

\* PebbleService.AddBlockedChat, called by the management API
AddBlockedChat(userId, chatId) ==
    /\ userId # "" /\ chatId # ""
    /\ blockedChats' = [blockedChats EXCEPT ![userId] =
         IF Contains(@, chatId) THEN @ ELSE Append(@, chatId)]
    /\ UNCHANGED <<notifiedPins, task, pinRemoved>>

\* PebbleService.RemoveBlockedChat, called by the management API
RemoveBlockedChat(userId, chatId) ==
    /\ userId # "" /\ chatId # ""
    /\ blockedChats' = [blockedChats EXCEPT ![userId] = SelectSeqNotIn(@, <<chatId>>)]
    /\ task' = [t \in Tasks |->
         IF Processing(t) /\ ChatIdOf(parseMessageInfo(task[t].env)) = chatId
         THEN [task[t] EXCEPT !.free = @ \cup {userId}]
         ELSE task[t]]
    /\ UNCHANGED <<notifiedPins, pinRemoved>>

\* ================================================================ TOKEN STORE
TokUsers  == {"A", "B", "C"}
Platforms == {"expo", "fcm"}
Tokens    == {"ExponentPushToken[AAA]", "tok2"}

\* models.UserPushTokens.Tokens: platform -> token, "" where the map has no entry
EmptyMap == [p \in Platforms |-> ""]

\* a key of user_tokens that is not there / a key of devices that is not there
NoRec == [present |-> FALSE, Tokens |-> EmptyMap]
NoDev == [present |-> FALSE, MetaID |-> "", Platform |-> ""]

EmptyStore == [ut |-> [u \in TokUsers |-> NoRec], dev |-> [t \in Tokens |-> NoDev]]

\* PebbleService.GetUserTokens: the stored map, an empty one for an absent key
GetUserTokens(ut, metaId) == IF ut[metaId].present THEN ut[metaId].Tokens ELSE EmptyMap

\* PebbleService.SaveUserTokens
SaveUserTokens(ut, metaId, toks) ==
    [ut EXCEPT ![metaId] = [present |-> TRUE, Tokens |-> toks]]

\* PebbleService.GetDeviceInfo: present = FALSE is its "device does not exist"
GetDeviceInfo(dev, deviceId) == dev[deviceId]

\* PebbleService.SaveDeviceInfo
SaveDeviceInfo(dev, deviceId, metaId, platform) ==
    [dev EXCEPT ![deviceId] = [present |-> TRUE, MetaID |-> metaId, Platform |-> platform]]

\* delete(oldUserTokens.Tokens, platform)
ScrubOldKeep(toks, platform) == toks

ScrubOld(toks, platform) == [toks EXCEPT ![platform] = ""]

\* userTokens.Tokens[platform] = token
PutToken(toks, platform, token) == [toks EXCEPT ![platform] = token]

IdleCall ==
    [pc |-> "idle", m |-> "", p |-> "", t |-> "", ex |-> NoDev, toks |-> EmptyMap]

NewCall(m, p, t) == [IdleCall EXCEPT !.pc = "getDevice", !.m = m, !.p = p, !.t = t]

\* PebbleService.SetUserToken, one store access: the store and the call after
\* the step of call c
CallStep(st, c) ==
    CASE c.pc = "getDevice" ->
           LET ex == GetDeviceInfo(st.dev, c.t)
           IN  [st |-> st,
                c  |-> [c EXCEPT !.ex = ex,
                                 !.pc = IF ex.present /\ ex.MetaID # c.m
                                        THEN "getOld" ELSE "saveDevice"]]
      [] c.pc = "getOld" ->
           LET old == GetUserTokens(st.ut, c.ex.MetaID)
           IN  [st |-> st,
                c  |-> [c EXCEPT !.toks = old,
                                 !.pc = IF old[c.p] = c.t
                                        THEN "saveOld" ELSE "saveDevice"]]
      [] c.pc = "saveOld" ->
           [st |-> [st EXCEPT !.ut = SaveUserTokens(@, c.ex.MetaID, ScrubOld(c.toks, c.p))],
            c  |-> [c EXCEPT !.pc = "saveDevice"]]
      [] c.pc = "saveDevice" ->
           [st |-> [st EXCEPT !.dev = SaveDeviceInfo(@, c.t, c.m, c.p)],
            c  |-> [c EXCEPT !.pc = "getCur"]]
      [] c.pc = "getCur" ->
           [st |-> st,
            c  |-> [c EXCEPT !.toks = GetUserTokens(st.ut, c.m), !.pc = "saveCur"]]
      [] c.pc = "saveCur" ->
           [st |-> [st EXCEPT !.ut = SaveUserTokens(@, c.m, PutToken(c.toks, c.p, c.t))],
            c  |-> [c EXCEPT !.pc = "done"]]

RECURSIVE RunCall(_, _)
\* the store after call c ran to its end with no other call in between
RunCall(st, c) ==
    IF c.pc = "done" THEN st
    ELSE LET n == CallStep(st, c) IN RunCall(n.st, n.c)

\* PebbleService.SetUserToken run alone
SetUserTokenAlone(st, m, p, t) == RunCall(st, NewCall(m, p, t))

\* PebbleService.RemoveUserToken run alone
RemoveUserTokenAlone(st, m, p) ==
    LET toks == GetUserTokens(st.ut, m)
    IN  IF toks[p] = "" THEN st
        ELSE [st EXCEPT !.ut = SaveUserTokens(@, m, ScrubOld(toks, p))]

\* PebbleService.DeleteUserTokens
DeleteUserTokensAlone(st, m) == [st EXCEPT !.ut = [@ EXCEPT ![m] = NoRec]]

NoOp == [op |-> "none", m |-> "", p |-> "", t |-> ""]

Store == [ut |-> userTokens, dev |-> devices]

Callers == {"c1", "c2"}

\* ================================================================ EXPO RETRY
\* the largest Service.maxRetries tried
MaxRetriesBound == 3
\* the largest number of tokens in one sendBatch
MaxBatch == 2

\* what one Client.SendPushNotification(s) call comes back with
Outcomes == {"transport", "apiErrors", "tickets"}

TicketSeqs(n) == UNION {[1..k -> {"ok", "error"}] : k \in 0..n}

NoResult == [Success |-> FALSE, Error |-> "", Retry |-> 0]

IdleSvc ==
    [pc |-> "idle", fn |-> "", maxRetries |-> 0, retry |-> 0, attempts |-> 0,
     results |-> <<>>, onlyTransport |-> TRUE, waited |-> <<>>, slept |-> <<>>,
     answers |-> <<>>]

\* ================================================================ DISPATCHER
\* no BatchPushResult returned
NoBatch ==
    [TotalUsers |-> 0, TotalPlatforms |-> 0, SuccessCount |-> 0, FailureCount |-> 0]

\* DefaultPushService with no SendToUsers call made
IdleDisp ==
    [pc |-> "idle", metaIds |-> <<>>, providers |-> {}, cancelled |-> FALSE,
     spawned |-> EmptyBag,
     pending |-> EmptyBag, inflight |-> EmptyBag, sent |-> EmptyBag,
     results |-> EmptyBag, batch |-> NoBatch]

\* ---------------------------------------------------------------- idle parts
RelayIdle ==
    /\ notifiedPins = {}
    /\ blockedChats = [u \in Users |-> <<>>]
    /\ task = [t \in Tasks |-> IdleTask]
    /\ pinRemoved = {}

TokIdle ==
    /\ userTokens = EmptyStore.ut
    /\ devices = EmptyStore.dev
    /\ call = [c \in Callers |-> IdleCall]
    /\ store0 = EmptyStore
    /\ lastOp = NoOp
    /\ prevOp = NoOp

\* ================================================================ MANAGEMENT API
\* no list_user_tokens read under way
IdlePager ==
    [pc |-> "idle", pageSize |-> 0, page |-> 0, acc |-> <<>>, last |-> <<>>]

\* a key of blocked_chats that is not there
NoBlockRec == [present |-> FALSE, BlockedChats |-> <<>>]

\* no add_blocked_chat / remove_blocked_chat call
IdleBCall ==
    [pc |-> "idle", op |-> "", userId |-> "", chatId |-> "", read |-> <<>>,
     found |-> FALSE, wrote |-> "none", err |-> FALSE]

BlockIdle ==
    /\ blockRecs = [u \in Users |-> NoBlockRec]
    /\ bcall = [c \in Callers |-> IdleBCall]

\* NewPushCenter and Initialize: not running, no socket, store open
IdleSup ==
    [running |-> FALSE, socket |-> "nil", connected |-> FALSE,
     pushRunning |-> FALSE, storeClosed |-> FALSE, reopened |-> FALSE,
     sessions |-> 0, last |-> "none", okRun |-> FALSE]

SupIdle == sup = IdleSup

\* no notification composed yet
NoNote ==
    [msgType |-> "", isMention |-> FALSE, chatInfoType |-> 0, userName |-> "",
     truncated |-> "", title |-> "", body |-> "", relayed |-> FALSE,
     raw |-> [kind |-> "absent", tenths |-> 0]]

NoteIdle == note = NoNote

\* no frame handled yet
NoFrame == [fmt |-> "none", valid |-> FALSE, M |-> ""]

\* the Client of NewClient: no socket, not connected, no heartbeat goroutine
IdleSock ==
    [socket |-> "nil", connected |-> FALSE, live |-> FALSE, stopped |-> FALSE,
     alive |-> TRUE, lost |-> FALSE, loops |-> 0, opens |-> 0, emits |-> 0,
     beat |-> "none", frames |-> 0, panics |-> 0, frame |-> NoFrame,
     fault |-> "none", routed |-> "none", sawDown |-> 0, returned |-> 0]

SockIdle == sock = IdleSock

\* the keyspaces of the store (collection names)
Collections == {"user_tokens", "blocked_chats"}

\* the tasks that call CollectionManager.GetCollection side by side
Getters == {"g1", "g2"}

\* no GetCollection call under way, nothing returned
IdleGet == [pc |-> "idle", name |-> "", db |-> 0, err |-> FALSE]

\* NewCollectionManager: no collection open (0: not in the map), no database
\* opened, no handle given out
IdleColl ==
    [collections |-> [n \in Collections |-> 0],
     opened |-> [n \in Collections |-> 0],
     given |-> [n \in Collections |-> {}],
     handles |-> 0, shutdown |-> FALSE, closeErr |-> FALSE, last |-> "none",
     get |-> [g \in Getters |-> IdleGet]]

CollIdle == cm = IdleColl

\* no hook fired
NoHook == [event |-> "none", hook |-> "nil", registered |-> FALSE]

\* NewManager: a Client with no hook set, not started
IdleMgr ==
    [OnConnect |-> "nil", OnDisconnect |-> "nil", OnError |-> "nil",
     socket |-> "nil", connected |-> FALSE, registered |-> {}, starts |-> 0,
     events |-> 0, fired |-> NoHook]

MgrIdle == mgr = IdleMgr

ApiIdle ==
    /\ pager = IdlePager /\ BlockIdle /\ SupIdle /\ NoteIdle /\ SockIdle
    /\ CollIdle /\ MgrIdle

SvcIdle == svc = IdleSvc

DispIdle == disp = IdleDisp

\* ---------------------------------------------------------------- SpecRelay
\* Two relay tasks side by side over a blocked_chats keyspace that does not
\* change while they run.
RelayInit ==
    /\ notifiedPins = {}
    /\ blockedChats \in {[u \in Users |-> <<>>],
                         [u \in Users |-> IF u = "u1" THEN <<"g1">> ELSE <<>>]}
    /\ task = [t \in Tasks |-> IdleTask]
    /\ pinRemoved = {}
    /\ TokIdle /\ SvcIdle /\ DispIdle /\ ApiIdle

RelayNext ==
    \/ \E t \in Tasks, env \in Envelopes : Receive(t, env)
    \/ \E t \in Tasks : Dedup(t)
    \/ \E t \in Tasks : Filter(t)
    \/ \E t \in Tasks : Mention(t)
    \/ \E t \in Tasks : Plain(t)
    \/ \E t \in Tasks : Record(t)
    \/ \E t \in Tasks : AddNotifiedPin(t)
    \/ \E p \in {"p1"} : RemoveNotifiedPin(p)

SpecRelay ==
    RelayInit /\ [][RelayNext /\ UNCHANGED <<tokVars, svc, disp, apiVars>>]_vars

\* ---------------------------------------------------------------- SpecMute
\* One relay task, with the management API blocking and unblocking chats
\* while it runs.
MuteInit == RelayIdle /\ TokIdle /\ SvcIdle /\ DispIdle /\ ApiIdle

MuteNext ==
    \/ \E env \in Envelopes : Receive("t1", env)
    \/ Dedup("t1")
    \/ Filter("t1")
    \/ Mention("t1")
    \/ Plain("t1")
    \/ Record("t1")
    \/ AddNotifiedPin("t1")
    \/ \E b \in BlockPairs : AddBlockedChat(b[1], b[2])
    \/ \E b \in BlockPairs : RemoveBlockedChat(b[1], b[2])

SpecMute ==
    MuteInit /\ [][MuteNext /\ UNCHANGED <<tokVars, svc, disp, apiVars>>]_vars

\* ---------------------------------------------------------------- relay claims
InfoOf(t) == parseMessageInfo(task[t].env)

Received(t) == task[t].pc # "idle"

Dispatched(t) == Len(task[t].calls) > 0

CallsTo(t, u) == {i \in 1..Len(task[t].calls) : Contains(task[t].calls[i].to, u)}

\* C1: of two envelopes with the same non-empty pin_id, whose PIN record no
\* operator removed, at most one reaches the Dispatcher
C1_DedupAtMostOnce ==
    \A t1, t2 \in Tasks :
        (/\ t1 # t2
         /\ Received(t1) /\ Received(t2)
         /\ InfoOf(t1).PinId # ""
         /\ InfoOf(t1).PinId = InfoOf(t2).PinId
         /\ InfoOf(t1).PinId \notin pinRemoved)
        => ~(Dispatched(t1) /\ Dispatched(t2))

\* C2: a user who has the chat of the envelope blocked during the whole
\* processing is in no plain Dispatcher call of the envelope, and is in a call
\* of the envelope only when mention_meta_ids lists the user
C2_MuteCorrect ==
    \A t \in Tasks, u \in Users :
        (/\ Received(t)
         /\ ChatIdOf(InfoOf(t)) # ""
         /\ u \notin task[t].free)
        => \A i \in CallsTo(t, u) :
              /\ task[t].calls[i].kind = "mention"
              /\ Contains(task[t].env.mention, u)

\* a muted recipient was left out of the plain call that went to the other
\* recipient, and was reached by the mention call
C2_Witness ==
    \E t \in Tasks, u \in Users :
        /\ task[t].pc = "done"
        /\ ChatIdOf(InfoOf(t)) # ""
        /\ u \notin task[t].free
        /\ Contains(task[t].env.repost, u)
        /\ \E i \in 1..Len(task[t].calls) :
              /\ task[t].calls[i].kind = "plain"
              /\ ~Contains(task[t].calls[i].to, u)
        /\ \E i \in CallsTo(t, u) : task[t].calls[i].kind = "mention"

\* C3: for a private_chat envelope the private_meta_id is a recipient of no
\* Dispatcher call of the envelope
C3_SelfSuppressed ==
    \A t \in Tasks :
        (Received(t) /\ task[t].env.type = "private_chat")
        => CallsTo(t, InfoOf(t).MetaId) = {}

\* ---------------------------------------------------------------- SpecTokSeq
\* the management API calling the token operations one after the other
SeqSetUserToken(m, p, t) ==
    LET st == SetUserTokenAlone(Store, m, p, t)
    IN  /\ userTokens' = st.ut
        /\ devices' = st.dev
        /\ prevOp' = lastOp
        /\ lastOp' = [op |-> "set", m |-> m, p |-> p, t |-> t]
        /\ UNCHANGED <<call, store0>>

SeqRemoveUserToken(m, p) ==
    LET st == RemoveUserTokenAlone(Store, m, p)
    IN  /\ userTokens' = st.ut
        /\ devices' = st.dev
        /\ prevOp' = lastOp
        /\ lastOp' = [op |-> "remove", m |-> m, p |-> p, t |-> ""]
        /\ UNCHANGED <<call, store0>>

SeqDeleteUserTokens(m) ==
    LET st == DeleteUserTokensAlone(Store, m)
    IN  /\ userTokens' = st.ut
        /\ devices' = st.dev
        /\ prevOp' = lastOp
        /\ lastOp' = [op |-> "delete", m |-> m, p |-> "", t |-> ""]
        /\ UNCHANGED <<call, store0>>

\* the meta ids of the sequential calls
SeqUsers == {"A", "B"}

TokSeqNext ==
    \/ \E m \in SeqUsers, p \in Platforms, t \in Tokens : SeqSetUserToken(m, p, t)
    \/ \E m \in SeqUsers, p \in Platforms : SeqRemoveUserToken(m, p)
    \/ \E m \in SeqUsers : SeqDeleteUserTokens(m)

TokSeqInit == RelayIdle /\ TokIdle /\ SvcIdle /\ DispIdle /\ ApiIdle

SpecTokSeq ==
    TokSeqInit /\ [][TokSeqNext /\ UNCHANGED <<relayVars, svc, disp, apiVars>>]_vars

\* C4: after set_user_token(A, P, T) and then set_user_token(B, P, T), A # B,
\* A has no token for P, B has T for P, and the device binding of T names B
C4_TokenTransfer ==
    (/\ prevOp.op = "set" /\ lastOp.op = "set"
     /\ prevOp.m # lastOp.m
     /\ prevOp.p = lastOp.p /\ prevOp.t = lastOp.t)
    => /\ GetUserTokens(userTokens, prevOp.m)[lastOp.p] = ""
       /\ GetUserTokens(userTokens, lastOp.m)[lastOp.p] = lastOp.t
       /\ GetDeviceInfo(devices, lastOp.t).present
       /\ GetDeviceInfo(devices, lastOp.t).MetaID = lastOp.m

\* B took T over from A, who keeps a token on the other platform
C4_Witness ==
    /\ prevOp.op = "set" /\ lastOp.op = "set"
    /\ prevOp.m # lastOp.m
    /\ prevOp.p = lastOp.p /\ prevOp.t = lastOp.t
    /\ \E q \in Platforms : GetUserTokens(userTokens, prevOp.m)[q] # ""

\* ---------------------------------------------------------------- SpecTokConc
\* Two tasks each calling SetUserToken once, step by step, on a store that one
\* earlier call (or none) has filled.
SeedStores ==
    {EmptyStore} \cup
    {SetUserTokenAlone(EmptyStore, m, p, t) : m \in TokUsers, p \in Platforms, t \in Tokens}

TokConcInit ==
    /\ store0 \in SeedStores
    /\ userTokens = store0.ut
    /\ devices = store0.dev
    /\ call = [c \in Callers |-> IdleCall]
    /\ lastOp = NoOp
    /\ prevOp = NoOp
    /\ RelayIdle /\ SvcIdle /\ DispIdle /\ ApiIdle

\* a task enters SetUserToken (the empty-argument check has passed)
CallSetUserToken(c, m, p, t) ==
    /\ call[c].pc = "idle"
    /\ call' = [call EXCEPT ![c] = NewCall(m, p, t)]
    /\ UNCHANGED <<userTokens, devices, store0, lastOp, prevOp>>

\* the next store access of the call of task c
StepSetUserToken(c) ==
    /\ call[c].pc \notin {"idle", "done"}
    /\ LET n == CallStep(Store, call[c])
       IN  /\ userTokens' = n.st.ut
           /\ devices' = n.st.dev
           /\ call' = [call EXCEPT ![c] = n.c]
    /\ UNCHANGED <<store0, lastOp, prevOp>>

TokConcNext ==
    \/ \E c \in Callers, m \in TokUsers, p \in Platforms, t \in Tokens :
          CallSetUserToken(c, m, p, t)
    \/ \E c \in Callers : StepSetUserToken(c)

SpecTokConc ==
    TokConcInit /\ [][TokConcNext /\ UNCHANGED <<relayVars, svc, disp, apiVars>>]_vars

Running(c) == call[c].pc \notin {"idle", "done"}

\* the call of task c has written the device binding and not yet returned
BindingWritten(c) == call[c].pc \in {"getCur", "saveCur"}

\* C5: while set_user_token(B, P, T) runs and has pointed the binding of T at
\* B, the store is never in a state where B has no token for P
C5_SetAtomic ==
    \A c \in Callers :
        (/\ BindingWritten(c)
         /\ GetDeviceInfo(devices, call[c].t).present
         /\ GetDeviceInfo(devices, call[c].t).MetaID = call[c].m)
        => GetUserTokens(userTokens, call[c].m)[call[c].p] # ""

\* C6: two finished calls set_user_token(B, P, T) and set_user_token(C, P, T),
\* B # C, on a store where A held T for P: the binding of T names B or C, only
\* that user has T for P, and A has no token for P
C6_SingleWinner ==
    \A c1, c2 \in Callers :
        (/\ c1 # c2
         /\ call[c1].pc = "done" /\ call[c2].pc = "done"
         /\ call[c1].m # call[c2].m
         /\ call[c1].p = call[c2].p /\ call[c1].t = call[c2].t
         /\ store0.dev[call[c1].t].present
         /\ store0.dev[call[c1].t].MetaID \notin {call[c1].m, call[c2].m}
         /\ GetUserTokens(store0.ut, store0.dev[call[c1].t].MetaID)[call[c1].p] = call[c1].t)
        => LET P == call[c1].p
               T == call[c1].t
               W == GetDeviceInfo(devices, T).MetaID
           IN  /\ W \in {call[c1].m, call[c2].m}
               /\ \A u \in TokUsers : GetUserTokens(userTokens, u)[P] = T <=> u = W

\* C7: two finished calls set_user_token(u, P1, T1) and set_user_token(u, P2, T2),
\* P1 # P2: u has both tokens
C7_NoLostUpdate ==
    \A c1, c2 \in Callers :
        (/\ c1 # c2
         /\ call[c1].pc = "done" /\ call[c2].pc = "done"
         /\ call[c1].m = call[c2].m
         /\ call[c1].p # call[c2].p)
        => /\ GetUserTokens(userTokens, call[c1].m)[call[c1].p] = call[c1].t
           /\ GetUserTokens(userTokens, call[c1].m)[call[c2].p] = call[c2].t

\* ---------------------------------------------------------------- SpecRetry
\* Service.SendSingleNotification and Service.sendBatch against a client whose
\* every call may fail.

\* for retry := 0; retry <= s.maxRetries; retry++
LoopContinuesStrict(retry, maxRetries) == retry < maxRetries

LoopContinues(retry, maxRetries) == retry <= maxRetries

\* Service.shouldRetry
shouldRetry(retryCount, maxRetries) == retryCount < maxRetries

\* the results after the loop is left: "max retries exceeded" where nothing is set
Exceeded(results, maxRetries, fn) ==
    [i \in 1..Len(results) |->
        IF ~results[i].Success /\ results[i].Error = ""
        THEN [results[i] EXCEPT !.Error = "max retries exceeded",
                                !.Retry = IF fn = "batch" THEN maxRetries ELSE @]
        ELSE results[i]]

\* the loop head: the next iteration, or the code after the loop
LoopHead(s) ==
    IF LoopContinues(s.retry, s.maxRetries)
    THEN [s EXCEPT !.pc = "call",
                   !.results = IF s.fn = "single"
                               THEN [i \in 1..Len(@) |-> [@[i] EXCEPT !.Retry = s.retry]]
                               ELSE @]
    ELSE [s EXCEPT !.pc = "done", !.results = Exceeded(@, s.maxRetries, s.fn)]

\* Service.SendSingleNotification (fn = "single", n = 1) or Service.sendBatch
\* (fn = "batch") is called on a Service built with maxRetries
SvcStart(fn, maxRetries, n) ==
    /\ svc.pc = "idle"
    /\ fn = "single" => n = 1
    /\ svc' = LoopHead([IdleSvc EXCEPT !.fn = fn, !.maxRetries = maxRetries,
                                       !.results = [i \in 1..n |-> NoResult]])

\* the result of one token after a response with tickets
TicketResult(r, tickets, i, retry) ==
    IF i > Len(tickets)
    THEN r
    ELSE IF tickets[i] = "ok"
         THEN [r EXCEPT !.Success = TRUE, !.Retry = retry]
         ELSE [r EXCEPT !.Error = "push failed", !.Retry = retry]

\* a response with a non-empty errors list is retried like a transport error
RetryApiErrorsLikeTransport(retryCount, maxRetries) == shouldRetry(retryCount, maxRetries)

\* if len(response.Errors) > 0 { ...; return result }: never another iteration
RetryApiErrors(retryCount, maxRetries) == FALSE

\* one loop iteration: the network call and what the code does with its answer
SvcAttempt(outcome, tickets) ==
    /\ svc.pc = "call"
    /\ outcome = "tickets" => Len(tickets) <= Len(svc.results)
    /\ outcome # "tickets" => tickets = <<>>
    /\ LET s == [svc EXCEPT !.attempts = @ + 1,
                            !.onlyTransport = @ /\ outcome = "transport",
                            !.answers = Append(@, [outcome |-> outcome,
                                                   tickets |-> tickets])]
           fail(e) == [i \in 1..Len(s.results) |->
                         IF s.fn = "single" \/ ~s.results[i].Success
                         THEN [s.results[i] EXCEPT !.Error = e, !.Retry = s.retry]
                         ELSE s.results[i]]
       IN  svc' =
             CASE outcome = "transport" /\ shouldRetry(s.retry, s.maxRetries) ->
                    [s EXCEPT !.pc = "wait"]
               [] outcome = "transport" /\ ~shouldRetry(s.retry, s.maxRetries) ->
                    [s EXCEPT !.pc = "done", !.results = fail("transport error")]
               [] outcome = "apiErrors" /\ RetryApiErrors(s.retry, s.maxRetries) ->
                    [s EXCEPT !.pc = "wait"]
               [] outcome = "apiErrors" /\ ~RetryApiErrors(s.retry, s.maxRetries) ->
                    [s EXCEPT !.pc = "done", !.results = fail("API errors")]
               [] outcome = "tickets" /\ s.fn = "single" /\ tickets = <<>> ->
                    [s EXCEPT !.pc = "done", !.results = fail("no response data")]
               [] OTHER ->
                    [s EXCEPT !.pc = "done",
                       !.results = [i \in 1..Len(@) |->
                                       TicketResult(@[i], tickets, i, s.retry)]]

\* Service.baseDelay of NewService, one second, counted in milliseconds
baseDelay == 1000

RECURSIVE Pow2(_)
Pow2(n) == IF n = 0 THEN 1 ELSE 2 * Pow2(n - 1)

\* Service.waitBeforeRetry: the time slept, nothing for retryCount 0, else
\* baseDelay * 2^(retryCount-1) and a tenth of it on top
waitBeforeRetry(retryCount) ==
    IF retryCount = 0
    THEN 0
    ELSE LET delay == baseDelay * Pow2(retryCount - 1)
             jitter == delay \div 10
         IN  delay + jitter

\* Service.waitBeforeRetry, then the continue of the loop
SvcWait ==
    /\ svc.pc = "wait"
    /\ svc' = LoopHead([svc EXCEPT !.waited = Append(@, svc.retry),
                                   !.slept = Append(@, waitBeforeRetry(svc.retry)),
                                   !.retry = @ + 1])

RetryInit == svc = IdleSvc /\ RelayIdle /\ TokIdle /\ DispIdle /\ ApiIdle

RetryNext ==
    \/ \E fn \in {"single", "batch"}, mr \in (-1)..MaxRetriesBound, n \in 1..MaxBatch :
          SvcStart(fn, mr, n)
    \/ \E o \in Outcomes, tk \in TicketSeqs(MaxBatch) : SvcAttempt(o, tk)
    \/ SvcWait

SpecRetry ==
    RetryInit /\ [][RetryNext /\ UNCHANGED <<relayVars, tokVars, disp, apiVars>>]_vars

\* C8: when every send returned a transport error, the finished call has made
\* exactly max_retries + 1 network attempts and every result is failed with an
\* error
C8_RetryBound ==
    (svc.pc = "done" /\ svc.onlyTransport)
    => /\ svc.attempts = svc.maxRetries + 1
       /\ \A i \in 1..Len(svc.results) :
             ~svc.results[i].Success /\ svc.results[i].Error # ""

\* a batch of two failed after three attempts with max_retries = 2
C8_Witness ==
    /\ svc.pc = "done" /\ svc.onlyTransport
    /\ svc.maxRetries = 2 /\ svc.attempts = 3
    /\ svc.fn = "batch" /\ Len(svc.results) = 2

\* ---------------------------------------------------------------- SpecDispatch
\* DefaultPushService.SendToUsers over a token store that holds still.

\* the providers there are to register: ExpoProvider.GetName
ProviderNames == {"expo"}

\* the recipient lists tried
DispLists ==
    {<<>>, <<"A">>, <<"A", "A">>, <<"A", "B">>, <<"B", "A", "B">>,
     <<"A", "B", "C", "D", "E", "F", "G">>}

\* the meta ids the token store of the Dispatcher may hold
DispUsers == {"A", "B", "C", "D", "E", "F", "G"}

\* Config.MaxConcurrency of DefaultConfig
MaxConcurrency == 6

\* expo_service.ValidateToken
ValidateToken(token) ==
    IF Len(token) < 10
    THEN FALSE
    ELSE Len(token) > 20 /\ (\/ SubSeq(token, 1, 18) = "ExponentPushToken["
                             \/ SubSeq(token, 1, 14) = "ExpoPushToken[")

\* ExpoProvider.ValidateToken
ProviderValidateTokenAny(token) == TRUE

ProviderValidateToken(token) == ValidateToken(token)

\* PebbleService.GetAllUserTokens: a map keyed by meta id, filled in list order
RECURSIVE GetAllUserTokens(_, _, _)
GetAllUserTokens(ut, metaIds, result) ==
    IF metaIds = <<>>
    THEN result
    ELSE GetAllUserTokens(ut, Tail(metaIds),
                          (Head(metaIds) :> GetUserTokens(ut, Head(metaIds))) @@ result)

\* a goroutine for every platform of the entry, with a provider or without
EntryAttemptsAnyPlatform(metaId, toks, providers) ==
    {<<metaId, p, toks[p]>> : p \in {q \in Platforms : toks[q] # ""}}

\* the goroutines one entry of the map starts: one per platform with a provider
EntryAttempts(metaId, toks, providers) ==
    {<<metaId, p, toks[p]>> : p \in {q \in Platforms : toks[q] # "" /\ q \in providers}}

RECURSIVE PerListEntry(_, _, _)
PerListEntry(ut, metaIds, providers) ==
    IF metaIds = <<>>
    THEN EmptyBag
    ELSE SetToBag(EntryAttempts(Head(metaIds), GetUserTokens(ut, Head(metaIds)), providers))
         (+) PerListEntry(ut, Tail(metaIds), providers)

\* SendToUsers, the two range loops: the goroutines started
SpawnedAttemptsPerListEntry(ut, metaIds, providers) == PerListEntry(ut, metaIds, providers)

SpawnedAttempts(ut, metaIds, providers) ==
    LET allUserTokens == GetAllUserTokens(ut, metaIds, <<>>)
    IN  SetToBag(UNION {EntryAttempts(m, allUserTokens[m], providers) :
                          m \in DOMAIN allUserTokens})

PushResult(a, success, error) ==
    [MetaID |-> a[1], Platform |-> a[2], Token |-> a[3],
     Success |-> success, Error |-> error]

\* SendToUsers up to wg.Wait
SendToUsers(metaIds) ==
    /\ disp.pc = "idle"
    /\ disp' = IF Len(metaIds) = 0
               THEN [disp EXCEPT !.pc = "done"]
               ELSE LET g == SpawnedAttempts(userTokens, metaIds, disp.providers)
                    IN  [disp EXCEPT !.pc = "running", !.metaIds = metaIds,
                                     !.spawned = g, !.pending = g]

\* a goroutine runs sendSingleNotification up to the provider's send
GoValidate(a) ==
    /\ disp.pc = "running"
    /\ BagIn(a, disp.pending)
    /\ disp' = IF ProviderValidateToken(a[3])
               THEN [disp EXCEPT !.pending = @ (-) SetToBag({a}),
                                 !.inflight = @ (+) SetToBag({a}),
                                 !.sent = @ (+) SetToBag({a})]
               ELSE [disp EXCEPT !.pending = @ (-) SetToBag({a}),
                                 !.results = @ (+) SetToBag({PushResult(a, FALSE, "invalid token")})]

\* the provider's send returns and the goroutine appends its result
GoReturn(a, success) ==
    /\ disp.pc = "running"
    /\ BagIn(a, disp.inflight)
    /\ disp' = [disp EXCEPT
                  !.inflight = @ (-) SetToBag({a}),
                  !.results = @ (+) SetToBag({PushResult(a, success,
                                        IF success THEN "" ELSE "send failed")})]

\* the number of results with the given Success
CountResults(results, success) ==
    BagCardinality([r \in {x \in BagToSet(results) : x.Success = success} |->
                       results[r]])

\* SendToUsers after wg.Wait: the counts of the BatchPushResult
BatchPushResult(metaIds, results) ==
    [TotalUsers |-> Len(metaIds),
     TotalPlatforms |-> Cardinality({r.Platform : r \in BagToSet(results)}),
     SuccessCount |-> CountResults(results, TRUE),
     FailureCount |-> CountResults(results, FALSE)]

\* wg.Wait returns and SendToUsers returns the BatchPushResult
DispReturn ==
    /\ disp.pc = "running"
    /\ disp.pending = EmptyBag /\ disp.inflight = EmptyBag
    /\ disp' = [disp EXCEPT !.pc = "done",
                            !.batch = BatchPushResult(disp.metaIds, disp.results)]

\* the caller's context is cancelled while the call runs
CancelCtx ==
    /\ disp.pc = "running"
    /\ ~disp.cancelled
    /\ disp' = [disp EXCEPT !.cancelled = TRUE]

\* the store after each of DispUsers registered an Expo token of its own
FanoutToken(u) == "ExponentPushToken[" \o u \o "AA]"

FanoutStore ==
    [ut  |-> [u \in DispUsers |->
                [present |-> TRUE, Tokens |-> PutToken(EmptyMap, "expo", FanoutToken(u))]],
     dev |-> [t \in {FanoutToken(u) : u \in DispUsers} |->
                [present |-> TRUE,
                 MetaID |-> CHOOSE u \in DispUsers : FanoutToken(u) = t,
                 Platform |-> "expo"]]]

\* the store after each of DispUsers registered a token at the edges of the
\* Expo format: 20 and 21 bytes with either prefix, a bare prefix, no prefix
EdgeToken(u) ==
    CASE u = "A" -> "ExponentPushToken[A]"
      [] u = "B" -> "ExponentPushToken[AA]"
      [] u = "C" -> "ExpoPushToken[AAAAA]"
      [] u = "D" -> "ExpoPushToken[AAAAAA]"
      [] u = "E" -> "ExponentPushToken["
      [] u = "F" -> "ExpoPushToken["
      [] OTHER   -> "abcdefghijklmnopqrstuvwxyz"

EdgeStore ==
    [ut  |-> [u \in DispUsers |->
                [present |-> TRUE, Tokens |-> PutToken(EmptyMap, "expo", EdgeToken(u))]],
     dev |-> [t \in {EdgeToken(u) : u \in DispUsers} |->
                [present |-> TRUE,
                 MetaID |-> CHOOSE u \in DispUsers : EdgeToken(u) = t,
                 Platform |-> "expo"]]]

\* a store of TokUsers seen with the keys of DispUsers
Widen(st) ==
    [ut  |-> [u \in DispUsers |-> IF u \in TokUsers THEN st.ut[u] ELSE NoRec],
     dev |-> st.dev]

\* the stores two registrations leave behind
DispStores ==
    {SetUserTokenAlone(SetUserTokenAlone(EmptyStore, "A", p1, t1), "B", p2, t2) :
        p1 \in Platforms, t1 \in Tokens, p2 \in Platforms, t2 \in Tokens}
    \cup {SetUserTokenAlone(SetUserTokenAlone(EmptyStore, "A", "expo", t1), "A", "fcm", t2) :
        t1 \in Tokens, t2 \in Tokens}

DispInit ==
    /\ RelayIdle /\ SvcIdle /\ ApiIdle
    /\ \E st \in {Widen(x) : x \in DispStores} \cup {FanoutStore, EdgeStore} :
          userTokens = st.ut /\ devices = st.dev
    /\ call = [c \in Callers |-> IdleCall]
    /\ store0 = EmptyStore
    /\ lastOp = NoOp
    /\ prevOp = NoOp
    /\ \E pr \in SUBSET ProviderNames : disp = [IdleDisp EXCEPT !.providers = pr]

DispNext ==
    \/ \E l \in DispLists : SendToUsers(l)
    \/ \E a \in BagToSet(disp.pending) : GoValidate(a)
    \/ \E a \in BagToSet(disp.inflight), ok \in BOOLEAN : GoReturn(a, ok)
    \/ DispReturn
    \/ CancelCtx

SpecDispatch ==
    DispInit /\ [][DispNext /\ UNCHANGED <<relayVars, tokVars, svc, apiVars>>]_vars

\* the number of times the provider's send was called for (meta_id, platform)
SendsTo(m, p) ==
    BagCardinality([a \in {x \in BagToSet(disp.sent) : x[1] = m /\ x[2] = p} |->
                       disp.sent[a]])

\* C9: within one SendToUsers call each (meta_id, platform) pair is handed to
\* a provider at most once, also when the recipient list repeats a meta_id
C9_AtMostOncePerCall ==
    \A m \in DispUsers, p \in Platforms : SendsTo(m, p) <= 1

\* a call with a repeated recipient has returned and that recipient was sent to
C9_Witness ==
    /\ disp.pc = "done"
    /\ \E i, j \in 1..Len(disp.metaIds) :
          /\ i # j /\ disp.metaIds[i] = disp.metaIds[j]
          /\ SendsTo(disp.metaIds[i], "expo") = 1

\* C10: for every resolved attempt whose token fails validate_token the
\* provider's send is never called, and once its goroutine has run the results
\* hold a failed PushResult with an error for that (meta_id, platform, token)
\* and no successful one
C10_InvalidNeverSent ==
    \A a \in BagToSet(disp.spawned) :
        ~ValidateToken(a[3])
        => /\ ~BagIn(a, disp.sent)
           /\ ~BagIn(a, disp.pending)
              => /\ \E r \in BagToSet(disp.results) :
                       /\ r.MetaID = a[1] /\ r.Platform = a[2] /\ r.Token = a[3]
                       /\ ~r.Success /\ r.Error # ""
                 /\ ~BagIn(PushResult(a, TRUE, ""), disp.results)

\* a call has returned that resolved an invalid token and a valid one
C10_Witness ==
    /\ disp.pc = "done"
    /\ \E a \in BagToSet(disp.spawned) :
          ~ValidateToken(a[3]) /\ BagIn(PushResult(a, FALSE, "invalid token"), disp.results)
    /\ \E b \in BagToSet(disp.spawned) : ValidateToken(b[3]) /\ BagIn(b, disp.sent)

\* ---------------------------------------------------------------- SpecPage
\* A client reads list_user_tokens page after page over a user_tokens keyspace
\* that holds still.

\* the largest page size asked for, next to the sizes around the clamp
MaxPageSize == 3

\* the keys of user_tokens in iterator (byte) order
KeyOrder == <<"A", "B", "C", "D", "E", "F", "G">>

\* iter.First .. iter.Next: the records of the keyspace in key order
ScanAll(ut) ==
    LET keys == SelectSeq(KeyOrder, LAMBDA u : u \in DOMAIN ut /\ ut[u].present)
    IN  [i \in 1..Len(keys) |-> [MetaID |-> keys[i], Tokens |-> ut[keys[i]].Tokens]]

\* pageSize after the range checks of GetUserTokensList
ClampPageSize(pageSize) ==
    IF pageSize < 1 THEN 10 ELSE IF pageSize > 100 THEN 100 ELSE pageSize

\* startIndex := (page - 1) * pageSize
StartIndexNextPage(page, pageSize) == page * pageSize

StartIndex(page, pageSize) == (page - 1) * pageSize

\* PebbleService.GetUserTokensList
GetUserTokensList(ut, page0, pageSize0) ==
    LET page       == IF page0 < 1 THEN 1 ELSE page0
        pageSize   == ClampPageSize(pageSize0)
        allUsers   == ScanAll(ut)
        total      == Len(allUsers)
        totalPages == (total + pageSize - 1) \div pageSize
        startIndex == StartIndex(page, pageSize)
        endIndex   == IF startIndex + pageSize > total THEN total
                      ELSE startIndex + pageSize
    IN  IF startIndex >= total
        THEN [Users |-> <<>>, Total |-> total, Page |-> page, PageSize |-> pageSize,
              TotalPages |-> totalPages, HasNext |-> FALSE]
        ELSE [Users |-> SubSeq(allUsers, startIndex + 1, endIndex),
              Total |-> total, Page |-> page, PageSize |-> pageSize,
              TotalPages |-> totalPages, HasNext |-> page < totalPages]

\* the page sizes a client asks for
PageSizes == 0..MaxPageSize \cup {100, 101}

\* the client starts at page 1
PageStart(pageSize) ==
    /\ pager.pc = "idle"
    /\ pager' = [IdlePager EXCEPT !.pc = "paging", !.pageSize = pageSize, !.page = 1]

\* the client reads the next page and goes on while has_next is true
PageRead ==
    /\ pager.pc = "paging"
    /\ LET r == GetUserTokensList(userTokens, pager.page, pager.pageSize)
       IN  pager' = [pager EXCEPT !.acc = @ \o r.Users,
                                  !.last = <<r>>,
                                  !.page = @ + 1,
                                  !.pc = IF r.HasNext THEN "paging" ELSE "done"]

\* the keyspaces of the registered subsets of the meta ids
PageStores ==
    {[u \in DOMAIN FanoutStore.ut |-> IF u \in S THEN FanoutStore.ut[u] ELSE NoRec] :
        S \in SUBSET (DOMAIN FanoutStore.ut)}

PageInit ==
    /\ RelayIdle /\ SvcIdle /\ DispIdle /\ ApiIdle
    /\ userTokens \in PageStores
    /\ devices = FanoutStore.dev
    /\ call = [c \in Callers |-> IdleCall]
    /\ store0 = EmptyStore
    /\ lastOp = NoOp
    /\ prevOp = NoOp

PageNext ==
    \/ \E ps \in PageSizes : PageStart(ps)
    \/ PageRead

SpecPage ==
    PageInit /\ [][PageNext /\ UNCHANGED <<relayVars, tokVars, svc, disp, blockVars, sup, note, sock, cm, mgr>>]_vars

\* C13: for a page size in 1..100 and an unchanged keyspace, the pages read
\* until has_next is false, put end to end, are the key-ordered scan of the
\* keyspace
C13_PagesAreScan ==
    (pager.pc = "done" /\ pager.pageSize \in 1..100)
    => pager.acc = ScanAll(userTokens)

\* five records read in three pages of two
C13_Witness ==
    /\ pager.pc = "done" /\ pager.pageSize = 2 /\ pager.page = 4
    /\ Len(pager.acc) = 5

\* C11: during one SendToUsers call the number of provider requests in flight
\* for one provider never exceeds MaxConcurrency
C11_InflightCap ==
    \A p \in ProviderNames :
        BagCardinality([a \in {x \in BagToSet(disp.inflight) : x[2] = p} |->
                           disp.inflight[a]]) <= MaxConcurrency

\* C12: once the context of a SendToUsers call is cancelled, no further send
\* is handed to a provider
C12_NoSendAfterCancel ==
    [][disp.cancelled => disp'.sent = disp.sent]_vars

\* ---------------------------------------------------------------- SpecBlock
\* Two tasks calling PebbleService.AddBlockedChat and RemoveBlockedChat, one
\* store access per step.

\* the chat ids the calls name, the empty one included
BlockChatIds == Chats \cup {""}

\* PebbleService.getUserBlockedChatsFromDB: the stored list, empty for no key
getUserBlockedChatsFromDB(recs, userId) ==
    IF recs[userId].present THEN recs[userId].BlockedChats ELSE <<>>

\* AddBlockedChat: the list to save when chatId is not in it
AppendBlocked(list, chatId) == Append(list, chatId)

\* AddBlockedChat: what the call does to the record of userId after its read
AddOutcomeNoCheck(read, chatId) ==
    [found |-> FALSE, wrote |-> "set", list |-> AppendBlocked(read, chatId)]

AddOutcome(read, chatId) ==
    IF Contains(read, chatId)
    THEN [found |-> TRUE, wrote |-> "none", list |-> read]
    ELSE [found |-> FALSE, wrote |-> "set", list |-> AppendBlocked(read, chatId)]

\* RemoveBlockedChat: what the call does to the record of userId after its read
RemoveOutcomeKeepKey(read, chatId) ==
    LET new == SelectSeq(read, LAMBDA x : x # chatId)
    IN  IF ~Contains(read, chatId)
        THEN [found |-> FALSE, wrote |-> "none", list |-> read]
        ELSE [found |-> TRUE, wrote |-> "set", list |-> new]

RemoveOutcome(read, chatId) ==
    LET new == SelectSeq(read, LAMBDA x : x # chatId)
    IN  IF ~Contains(read, chatId)
        THEN [found |-> FALSE, wrote |-> "none", list |-> read]
        ELSE IF Len(new) = 0
             THEN [found |-> TRUE, wrote |-> "delete", list |-> new]
             ELSE [found |-> TRUE, wrote |-> "set", list |-> new]

\* db.Set / db.Delete / nothing on the key of userId
ApplyWrite(recs, userId, o) ==
    CASE o.wrote = "set" ->
           [recs EXCEPT ![userId] = [present |-> TRUE, BlockedChats |-> o.list]]
      [] o.wrote = "delete" -> [recs EXCEPT ![userId] = NoBlockRec]
      [] OTHER -> recs

\* a task enters AddBlockedChat or RemoveBlockedChat; an empty id is refused
BCall(c, op, userId, chatId) ==
    /\ bcall[c].pc \in {"idle", "done"}
    /\ bcall' = [bcall EXCEPT ![c] =
                    IF userId = "" \/ chatId = ""
                    THEN [IdleBCall EXCEPT !.pc = "done", !.op = op, !.userId = userId,
                                           !.chatId = chatId, !.err = TRUE]
                    ELSE [IdleBCall EXCEPT !.pc = "read", !.op = op, !.userId = userId,
                                           !.chatId = chatId]]
    /\ UNCHANGED blockRecs

\* the call reads the user's record
BRead(c) ==
    /\ bcall[c].pc = "read"
    /\ bcall' = [bcall EXCEPT ![c].read = getUserBlockedChatsFromDB(blockRecs, bcall[c].userId),
                              ![c].pc = "write"]
    /\ UNCHANGED blockRecs

\* the call decides on what it read, writes (or not) and returns
BWrite(c) ==
    /\ bcall[c].pc = "write"
    /\ LET o == IF bcall[c].op = "add"
                THEN AddOutcome(bcall[c].read, bcall[c].chatId)
                ELSE RemoveOutcome(bcall[c].read, bcall[c].chatId)
       IN  /\ blockRecs' = ApplyWrite(blockRecs, bcall[c].userId, o)
           /\ bcall' = [bcall EXCEPT ![c].found = o.found, ![c].wrote = o.wrote,
                                     ![c].pc = "done"]

BlockInit ==
    /\ RelayIdle /\ TokIdle /\ SvcIdle /\ DispIdle /\ ApiIdle

BlockNext ==
    \/ \E c \in Callers, op \in {"add", "remove"}, u \in Users, ch \in BlockChatIds :
          BCall(c, op, u, ch)
    \/ \E c \in Callers : BRead(c)
    \/ \E c \in Callers : BWrite(c)

SpecBlock ==
    BlockInit /\ [][BlockNext /\ UNCHANGED <<relayVars, tokVars, svc, disp, pager, sup, note, sock, cm, mgr>>]_vars

NoDuplicates(list) == \A i, j \in 1..Len(list) : list[i] = list[j] => i = j

\* C14: after any sequence of add_blocked_chat and remove_blocked_chat calls,
\* one at a time or overlapping, a user's stored list holds a chat id at most
\* once, and an add that finds the chat id in the list writes nothing: the
\* stored records stay as they are
C14_UniqueChatIds ==
    /\ [](\A u \in Users : NoDuplicates(getUserBlockedChatsFromDB(blockRecs, u)))
    /\ [][\A c \in Callers :
            (bcall[c].pc = "write" /\ bcall[c].op = "add"
             /\ Contains(bcall[c].read, bcall[c].chatId) /\ bcall'[c].pc = "done")
            => blockRecs' = blockRecs]_vars

\* an add found its chat id in a list of two and returned
C14_Witness ==
    \E c \in Callers :
        /\ bcall[c].pc = "done" /\ bcall[c].op = "add" /\ bcall[c].found
        /\ Len(getUserBlockedChatsFromDB(blockRecs, bcall[c].userId)) = 2

\* C15: no key of blocked_chats holds an empty list; a remove that takes the
\* last entry out deletes the key, and a remove of a chat id that is not in
\* the list writes nothing
C15_NoEmptyList ==
    /\ [](\A u \in Users : blockRecs[u].present => blockRecs[u].BlockedChats # <<>>)
    /\ [][\A c \in Callers :
            (bcall[c].pc = "write" /\ bcall[c].op = "remove" /\ bcall'[c].pc = "done")
            => LET u == bcall[c].userId
                   read == bcall[c].read
                   ch == bcall[c].chatId
               IN  /\ ~Contains(read, ch) => blockRecs' = blockRecs
                   /\ (Contains(read, ch) /\ SelectSeq(read, LAMBDA x : x # ch) = <<>>)
                      => ~blockRecs'[u].present]_vars

\* a remove took the last entry out and deleted the key, and a remove of an
\* absent chat id has returned
C15_Witness ==
    /\ \E c \in Callers :
          bcall[c].pc = "done" /\ bcall[c].op = "remove" /\ bcall[c].wrote = "delete"
    /\ \E c \in Callers :
          /\ bcall[c].pc = "done" /\ bcall[c].op = "remove"
          /\ ~bcall[c].found /\ ~bcall[c].err

\* C16: a meta id whose token map is empty is not told apart from one that
\* was never stored: get_user_tokens gives the empty map and list_user_tokens
\* gives the items and total it would give without the record of that meta id
C16_EmptyIsAbsent ==
    \A u \in TokUsers :
        GetUserTokens(userTokens, u) = EmptyMap
        => GetUserTokensList(userTokens, 1, 10)
           = GetUserTokensList([userTokens EXCEPT ![u] = NoRec], 1, 10)

\* ---------------------------------------------------------------- SpecSup
\* PushCenter.Run and PushCenter.Stop, the socket's connect and disconnect
\* events, and one relay task started by an envelope the socket delivers.

\* the largest number of sessions opened
MaxSessions == 3

\* Run: if pc.running
AlreadyRunningNever(running) == FALSE

AlreadyRunning(running) == running

\* PushCenter.IsRunning: pc.running && socketManager.IsRunning()
IsRunning == sup.running /\ sup.socket # "nil" /\ sup.connected

\* PushCenter.Run; connectOk is whether socketio.Connect succeeds
SupRun(connectOk) ==
    /\ sup.sessions < MaxSessions
    /\ sup' =
         IF AlreadyRunning(sup.running)
         THEN [sup EXCEPT !.last = "run err"]
         ELSE IF sup.socket # "nil" /\ sup.connected
              \* Client.Start: already connected, nothing to open
              THEN IF sup.pushRunning
                   THEN [sup EXCEPT !.last = "run err"]
                   ELSE [sup EXCEPT !.pushRunning = TRUE, !.running = TRUE,
                                    !.last = "run ok", !.okRun = TRUE]
              ELSE IF ~connectOk
                   THEN [sup EXCEPT !.last = "run err"]
                   ELSE IF sup.pushRunning
                        THEN [sup EXCEPT !.socket = "open", !.sessions = @ + 1,
                                         !.last = "run err"]
                        ELSE [sup EXCEPT !.socket = "open", !.sessions = @ + 1,
                                         !.pushRunning = TRUE, !.running = TRUE,
                                         !.last = "run ok", !.okRun = TRUE]
    /\ UNCHANGED relayVars

\* PushCenter.Stop
SupStop ==
    /\ sup' =
         IF ~sup.running
         THEN [sup EXCEPT !.last = "stop ok", !.okRun = FALSE]
         ELSE [sup EXCEPT !.socket = "nil", !.connected = FALSE,
                          !.pushRunning = FALSE, !.storeClosed = TRUE,
                          !.reopened = FALSE, !.running = FALSE,
                          !.last = "stop ok", !.okRun = FALSE]
    /\ UNCHANGED relayVars

\* the socket's "connect" event
OnConnect ==
    /\ sup.socket # "nil" /\ ~sup.connected
    /\ sup' = [sup EXCEPT !.connected = TRUE]
    /\ UNCHANGED relayVars

\* the socket's "disconnect" event
OnDisconnect ==
    /\ sup.socket # "nil" /\ sup.connected
    /\ sup' = [sup EXCEPT !.connected = FALSE]
    /\ UNCHANGED relayVars

\* the socket delivers an envelope and the handler starts the relay task
SupReceive(env) ==
    /\ sup.socket # "nil" /\ sup.connected
    /\ Receive("t1", env)
    /\ UNCHANGED sup

\* a step of the relay task that reads or writes the store or calls the
\* Dispatcher: CollectionManager.GetCollection opens a closed collection again
SupStoreStep ==
    /\ \/ Dedup("t1") \/ Filter("t1") \/ Mention("t1") \/ Plain("t1")
       \/ AddNotifiedPin("t1")
    /\ sup' = [sup EXCEPT !.reopened = @ \/ sup.storeClosed]

\* the relay task starts the goroutine of AddNotifiedPin and returns
SupRecord == Record("t1") /\ UNCHANGED sup

SupInit == RelayIdle /\ TokIdle /\ SvcIdle /\ DispIdle /\ ApiIdle

SupNext ==
    \/ \E ok \in BOOLEAN : SupRun(ok)
    \/ SupStop
    \/ OnConnect
    \/ OnDisconnect
    \/ \E env \in Envelopes : SupReceive(env)
    \/ SupStoreStep
    \/ SupRecord

SpecSup ==
    SupInit /\ [][SupNext /\ UNCHANGED <<tokVars, svc, disp, pager, blockVars, note, sock, cm, mgr>>]_vars

\* C17: after Stop has closed the store, no relay task makes a Dispatcher
\* call or runs the PIN record write
C17_StopWaitsForTasks ==
    [][(sup.storeClosed /\ ~sup.running)
       => /\ \A t \in Tasks : task'[t].calls = task[t].calls
          /\ ~(\E t \in Tasks : AddNotifiedPin(t))]_vars

\* C18: is_running is true only if the last successful Run was not followed by
\* a Stop and the session is connected; Run on a started supervisor returns an
\* error and opens no session; Stop on a supervisor that is not started
\* returns success and leaves the session and the store as they are
C18_RunStop ==
    /\ [](IsRunning => (sup.okRun /\ sup.socket # "nil" /\ sup.connected))
    /\ [][((\E ok \in BOOLEAN : SupRun(ok)) /\ sup.running)
          => /\ sup'.last = "run err"
             /\ sup'.sessions = sup.sessions /\ sup'.socket = sup.socket
             /\ sup'.running]_vars
    /\ [][(SupStop /\ ~sup.running)
          => /\ sup'.last = "stop ok"
             /\ sup'.socket = sup.socket /\ sup'.connected = sup.connected
             /\ sup'.storeClosed = sup.storeClosed
             /\ sup'.reopened = sup.reopened]_vars

\* a Run on the started supervisor was refused while the session is connected
C18_Witness ==
    /\ IsRunning
    /\ sup.last = "run err"
    /\ sup.sessions = 1

\* ---------------------------------------------------------------- SpecMuteFair
\* SpecMute with the relay task and its AddNotifiedPin goroutine scheduled
\* fairly.
RelayTaskStep ==
    /\ \/ Dedup("t1") \/ Filter("t1") \/ Mention("t1") \/ Plain("t1")
       \/ Record("t1") \/ AddNotifiedPin("t1")
    /\ UNCHANGED <<tokVars, svc, disp, apiVars>>

SpecMuteFair == SpecMute /\ WF_vars(RelayTaskStep)

\* C19: an envelope with a non-empty pin_id that has reached the dispatch step
\* leads to its PIN being in notified_pins
C19_PinEventuallyRecorded ==
    \A t \in Tasks :
        (task[t].pc = "mention" /\ InfoOf(t).PinId # "")
        ~> (Received(t) /\ InfoOf(t).PinId \in notifiedPins)

\* the task has made both Dispatcher calls and its PIN is recorded
C19_Witness ==
    /\ task["t1"].pc = "done"
    /\ Len(task["t1"].calls) = 2
    /\ InfoOf("t1").PinId # ""
    /\ InfoOf("t1").PinId \in notifiedPins

\* ---------------------------------------------------------------- SpecText
\* The title and body processChatMessage composes for a Dispatcher call.

\* truncateUserName: const maxLength = 20
maxLength == 20

\* PushCenter.truncateUserName
truncateUserName(userName) ==
    IF userName = "" THEN userName
    ELSE IF Len(userName) <= maxLength THEN userName
    ELSE SubSeq(userName, 1, maxLength - 3) \o "..."

\* chatInfoType == 1 || chatInfoType == 23
IsCandyBagOnlyOne(chatInfoType) == chatInfoType = 1

IsCandyBag(chatInfoType) == chatInfoType = 1 \/ chatInfoType = 23

\* PushCenter.generateNotificationTitle
generateNotificationTitle(msgType, isMention) ==
    IF isMention
    THEN CASE msgType = "private_chat" -> "New Mention"
           [] msgType = "group_chat" -> "You were mentioned"
           [] OTHER -> "New Mention"
    ELSE CASE msgType = "private_chat" -> "New Message"
           [] msgType = "group_chat" -> "New Message in Group"
           [] OTHER -> "New Message"

\* PushCenter.GenerateNotificationBody
GenerateNotificationBody(msgType, userName, chatInfoType, isMention) ==
    IF isMention
    THEN LET truncatedName == IF truncateUserName(userName) = "" THEN "Someone"
                              ELSE truncateUserName(userName)
         IN  IF IsCandyBag(chatInfoType)
             THEN truncatedName \o " mentioned you with a Candy Bag"
             ELSE truncatedName \o " mentioned you"
    ELSE IF msgType = "group_chat"
         THEN IF userName # ""
              THEN IF IsCandyBag(chatInfoType)
                   THEN truncateUserName(userName) \o " sent a Candy Bag"
                   ELSE truncateUserName(userName) \o " sent a message"
              ELSE "New message in group"
         ELSE IF userName # ""
              THEN IF IsCandyBag(chatInfoType)
                   THEN truncateUserName(userName) \o " sent you a Candy Bag"
                   ELSE truncateUserName(userName) \o " sent you a message"
              ELSE "You have a new message"

\* the envelope fields the text is composed from
MsgTypes == {"private_chat", "group_chat"}

ChatInfoTypes == {0, 1, 2, 22, 23, 24}

\* A Go string is a sequence of bytes and so is a string here.  Strings of the
\* notation hold ASCII only, so in a sender name the byte LeadByte3 stands for
\* the first byte of a three-byte UTF-8 rune (0xE4 of U+4E2D) and ContByte for
\* each of its two continuation bytes.
LeadByte3 == "{"

ContByte == "}"

Rune3 == LeadByte3 \o ContByte \o ContByte

\* names of n three-byte runes
RECURSIVE WideName(_)
WideName(n) == IF n = 0 THEN "" ELSE Rune3 \o WideName(n - 1)

UserNames ==
    {"", "B", "Bob", "abcdefghijklmnopqrst", "abcdefghijklmnopqrstu",
     "ab" \o WideName(6), WideName(7), WideName(21)}

\* D.message.chatType as the JSON decoder hands it over: absent, a number
\* (float64, here in tenths), a number of an integer type (a map built in Go),
\* or a string
NoChatType == [kind |-> "absent", tenths |-> 0]

RawChatTypes ==
    {NoChatType}
    \cup {[kind |-> k, tenths |-> t] : k \in {"float64", "int"}, t \in {0, 10, 20, 230}}
    \cup {[kind |-> "float64", tenths |-> 15], [kind |-> "string", tenths |-> 10]}

\* the chatType decoding done for every chat type
parseChatInfoTypeAnyChat(msgType, raw) ==
    IF raw.kind \in {"float64", "int"} THEN raw.tenths \div 10 ELSE 0

\* parseMessageInfo, ChatInfoType: 0, and for group_chat the chatType of the
\* message converted to int64 when it is of a numeric type
parseChatInfoType(msgType, raw) ==
    IF msgType = "group_chat"
    THEN IF raw.kind \in {"float64", "int"} THEN raw.tenths \div 10 ELSE 0
    ELSE 0

\* the title and body for the given inputs
Composed(msgType, userName, chatInfoType, isMention) ==
    [msgType |-> msgType, isMention |-> isMention,
     chatInfoType |-> chatInfoType, userName |-> userName,
     truncated |-> truncateUserName(userName),
     title |-> generateNotificationTitle(msgType, isMention),
     body |-> GenerateNotificationBody(msgType, userName, chatInfoType, isMention),
     relayed |-> FALSE, raw |-> NoChatType]

\* generateNotificationTitle and GenerateNotificationBody called with any
\* chat_info_type
Compose(msgType, userName, chatInfoType, isMention) ==
    note' = Composed(msgType, userName, chatInfoType, isMention)

\* processChatMessage composes the title and body of one Dispatcher call from
\* the parsedInfo of the envelope
ComposeForEnvelope(msgType, userName, raw, isMention) ==
    note' = [Composed(msgType, userName, parseChatInfoType(msgType, raw), isMention)
               EXCEPT !.relayed = TRUE, !.raw = raw]

TextInit == RelayIdle /\ TokIdle /\ SvcIdle /\ DispIdle /\ ApiIdle

TextNext ==
    \/ \E mt \in MsgTypes, un \in UserNames, ct \in ChatInfoTypes, im \in BOOLEAN :
          Compose(mt, un, ct, im)
    \/ \E mt \in MsgTypes, un \in UserNames, raw \in RawChatTypes, im \in BOOLEAN :
          ComposeForEnvelope(mt, un, raw, im)

SpecText ==
    TextInit /\ [][TextNext /\ UNCHANGED <<relayVars, tokVars, svc, disp, pager,
                                           blockVars, sup, sock, cm, mgr>>]_vars

\* the row of the title/body table for the inputs of note, name being the
\* sender name as shown
TableTitle ==
    IF note.msgType = "private_chat"
    THEN IF note.isMention THEN "New Mention" ELSE "New Message"
    ELSE IF note.isMention THEN "You were mentioned" ELSE "New Message in Group"

TableBody(name) ==
    LET candy == note.chatInfoType \in {1, 23}
    IN  IF note.isMention
        THEN (IF name = "" THEN "Someone" ELSE name)
             \o (IF candy THEN " mentioned you with a Candy Bag" ELSE " mentioned you")
        ELSE IF note.msgType = "private_chat"
             THEN IF name = "" THEN "You have a new message"
                  ELSE name \o (IF candy THEN " sent you a Candy Bag"
                                ELSE " sent you a message")
             ELSE IF name = "" THEN "New message in group"
                  ELSE name \o (IF candy THEN " sent a Candy Bag" ELSE " sent a message")

\* C20: for private_chat and group_chat, mention or not, any chat_info_type
\* and sender name, the composed title and body are those of the table: Candy
\* Bag bodies exactly for chat_info_type 1 and 23, Someone for an empty name in
\* mention bodies, the fallback bodies for an empty name in plain bodies
C20_TitleBodyTable ==
    note.msgType \in MsgTypes
    => /\ note.title = TableTitle
       /\ note.body = TableBody(truncateUserName(note.userName))

\* a group mention with chat_info_type 23 and no sender name
C20_Witness ==
    /\ note.msgType = "group_chat" /\ note.isMention
    /\ note.chatInfoType = 23 /\ note.userName = ""
    /\ note.body = "Someone mentioned you with a Candy Bag"

\* the characters of a name: the runes a UTF-8 decoder reads from its bytes; a
\* byte that does not start a complete rune is read as one RuneError
RuneError == "RuneError"

RECURSIVE Runes(_)
Runes(s) ==
    IF s = "" THEN <<>>
    ELSE IF Len(s) >= 3 /\ SubSeq(s, 1, 3) = Rune3
         THEN <<Rune3>> \o Runes(SubSeq(s, 4, Len(s)))
         ELSE IF SubSeq(s, 1, 1) \in {LeadByte3, ContByte}
              THEN <<RuneError>> \o Runes(SubSeq(s, 2, Len(s)))
              ELSE <<SubSeq(s, 1, 1)>> \o Runes(SubSeq(s, 2, Len(s)))

\* the first k characters of a name, as a string
RECURSIVE FirstRunes(_, _)
FirstRunes(s, k) ==
    IF k = 0 \/ s = "" THEN ""
    ELSE IF Len(s) >= 3 /\ SubSeq(s, 1, 3) = Rune3
         THEN Rune3 \o FirstRunes(SubSeq(s, 4, Len(s)), k - 1)
         ELSE SubSeq(s, 1, 1) \o FirstRunes(SubSeq(s, 2, Len(s)), k - 1)

\* C21: for every sender name n the truncated name has at most 20
\* characters; if n has more than 20 characters it is the first 17 characters
\* of n followed by "...", otherwise it is n unchanged
C21_TruncateCharacters ==
    note.msgType \in MsgTypes
    => /\ Len(Runes(note.truncated)) <= 20
       /\ note.truncated = IF Len(Runes(note.userName)) > 20
                           THEN FirstRunes(note.userName, 17) \o "..."
                           ELSE note.userName

\* the same statement for names of one-byte characters only
C21_TruncateAscii ==
    (note.msgType \in MsgTypes /\ Len(Runes(note.userName)) = Len(note.userName))
    => /\ Len(note.truncated) <= 20
       /\ note.truncated = IF Len(note.userName) > 20
                           THEN SubSeq(note.userName, 1, 17) \o "..."
                           ELSE note.userName

\* a name of seven three-byte characters is cut inside its sixth character
C21_SevenWide ==
    /\ note.userName = WideName(7)
    /\ note.truncated = WideName(5) \o LeadByte3 \o ContByte \o "..."
    /\ Runes(note.truncated)[6] = RuneError

\* the tokens the Expo format admits: one of the two prefixes and at least 20
\* characters
ExpoFormat(token) ==
    /\ Len(token) >= 20
    /\ \/ SubSeq(token, 1, 18) = "ExponentPushToken["
       \/ SubSeq(token, 1, 14) = "ExpoPushToken["

\* C22: the Expo validate_token accepts a token exactly when it begins with
\* ExponentPushToken[ or ExpoPushToken[ and has at least 20 characters: every
\* attempt the dispatcher has validated was handed to the provider's send if
\* its token has that format and was refused as invalid if not
C22_ValidateTokenFormat ==
    \A a \in BagToSet(disp.spawned) :
        ~BagIn(a, disp.pending) => (BagIn(a, disp.sent) <=> ExpoFormat(a[3]))

\* the same statement with the length bound the code applies, more than 20
C22_ValidateTokenOver20 ==
    \A a \in BagToSet(disp.spawned) :
        ~BagIn(a, disp.pending)
        => (BagIn(a, disp.sent) <=> (ExpoFormat(a[3]) /\ Len(a[3]) > 20))

\* a token of 20 characters with a valid prefix was refused, one of 21 sent
C22_TwentyRefused ==
    /\ BagIn(PushResult(<<"A", "expo", "ExponentPushToken[A]">>, FALSE, "invalid token"),
             disp.results)
    /\ BagIn(<<"B", "expo", "ExponentPushToken[AA]">>, disp.sent)

RECURSIVE SumSeq(_)
SumSeq(q) == IF q = <<>> THEN 0 ELSE Head(q) + SumSeq(Tail(q))

\* C23: the wait before the n-th retry, after the n-th failed attempt, is
\* base_delay * 2^(n-1) * (1 + jitter) with jitter in [0, 0.1], so a send
\* that fails twice and then succeeds has waited between 3 and 3.3 base_delay
C23_BackoffWaits ==
    /\ \A n \in 1..Len(svc.slept) :
          /\ svc.slept[n] >= baseDelay * Pow2(n - 1)
          /\ 10 * svc.slept[n] <= 11 * baseDelay * Pow2(n - 1)
    /\ (svc.pc = "done" /\ svc.attempts = 3 /\ svc.results[1].Success)
       => /\ SumSeq(svc.slept) >= 3 * baseDelay
          /\ 10 * SumSeq(svc.slept) <= 33 * baseDelay

\* the waits the code inserts: none after the first failed attempt, then
\* 1.1 * base_delay * 2^(n-2) after the n-th
C23_WaitsOfCode ==
    \A n \in 1..Len(svc.slept) :
        svc.slept[n] = IF n = 1 THEN 0 ELSE (11 * baseDelay * Pow2(n - 2)) \div 10

\* a single send failed twice, then succeeded, after waiting 1.1 base_delay
C23_FailTwiceThenOk ==
    /\ svc.pc = "done" /\ svc.fn = "single" /\ svc.attempts = 3
    /\ svc.results[1].Success
    /\ svc.slept = <<0, 1100>>

\* ---------------------------------------------------------------- SpecSock
\* The upstream session: Client.Start and Client.Stop, the events of the
\* socket (connect, disconnect, connect_error, error, message), the heartbeat
\* goroutines.  The socket is the socket.io library's: sock.live is what its
\* Connected() answers, and its events come when the library fires them.

\* the most connect events, and calls of socketio.Connect
MaxConnects == 2
\* the most heartbeat frames handed to Emit
MaxBeats == 2
\* the most inbound frames
MaxFrames == 2

\* Client.IsConnected
IsConnected(s) ==
    IF ~s.connected \/ s.socket = "nil" THEN FALSE ELSE s.live

\* Client.Start; connectOk is whether socketio.Connect returns a socket
ClientStart(connectOk) ==
    /\ sock.alive /\ sock.opens < MaxConnects
    /\ sock' =
         IF sock.socket # "nil" /\ sock.connected
         THEN sock
         ELSE IF ~connectOk
              THEN [sock EXCEPT !.opens = @ + 1, !.lost = FALSE]
              ELSE [sock EXCEPT !.socket = "open", !.live = FALSE, !.opens = @ + 1,
                                !.stopped = FALSE, !.lost = FALSE]

\* Client.Stop
ClientStop ==
    /\ sock.alive
    /\ sock' = [sock EXCEPT !.socket = "nil", !.live = FALSE, !.connected = FALSE,
                            !.stopped = TRUE, !.lost = FALSE]

\* the "connect" handler: the library has connected the socket
ConnectEvent ==
    /\ sock.alive /\ sock.socket = "open" /\ ~sock.live /\ ~sock.connected
    /\ sock.loops < MaxConnects
    /\ sock' = [sock EXCEPT !.connected = TRUE, !.live = TRUE, !.lost = FALSE,
                            !.loops = @ + 1, !.beat = "none"]

\* the library loses its connection: Connected() answers false from now on
TransportLost ==
    /\ sock.alive /\ sock.socket = "open" /\ sock.live
    /\ sock' = [sock EXCEPT !.live = FALSE]

\* the "disconnect" handler
DisconnectEvent ==
    /\ sock.alive /\ sock.socket = "open" /\ ~sock.live /\ sock.connected
    /\ sock' = [sock EXCEPT !.connected = FALSE, !.lost = TRUE]

\* the "connect_error" and "error" handlers: the error goes to OnError
ErrorEvent(ev) ==
    /\ sock.alive /\ sock.socket = "open"
    /\ ev \in {"connect_error", "error"}
    /\ sock' = [sock EXCEPT !.lost = TRUE]

\* the "return" of a tick that finds the session not connected is inside the
\* func literal run for the tick: it ends that call and the for range over
\* ticker.C goes on, so the goroutine does not return
TickReturnEndsLoop == FALSE

\* one tick of a startHeartbeat goroutine: sendHeartbeat if IsConnected,
\* else the tick does nothing and the loop goes on (sawDown counts the
\* goroutines that had such a tick, returned those that left the loop).
\* outcome is what socket.Emit does (the error of sendSocketData is dropped,
\* a panic recovered), dropped whether the library's connection is gone
\* after it
startHeartbeat(outcome, dropped) ==
    /\ sock.alive /\ sock.loops - sock.returned > 0 /\ sock.emits < MaxBeats
    /\ outcome = "ok" => ~dropped
    /\ sock' =
         IF IsConnected(sock)
         THEN [sock EXCEPT !.emits = @ + 1,
                           !.beat = IF outcome = "ok" THEN "sent" ELSE "failed",
                           !.live = ~dropped]
         ELSE IF sock.sawDown < sock.loops
              THEN [sock EXCEPT !.sawDown = @ + 1,
                                !.returned = IF TickReturnEndsLoop THEN @ + 1 ELSE @]
              ELSE sock

\* the inbound frames: data[0] as a string (valid JSON or not), a map or
\* something else, or no data at all, and the method M it names
Methods ==
    {"HEART_BEAT", "PONG", "pong", "WS_SERVER_NOTIFY_PRIVATE_CHAT",
     "WS_SERVER_NOTIFY_GROUP_CHAT", "WS_SERVER_NOTIFY_GROUP_ROLE", "OTHER"}

Frames ==
    {[fmt |-> "empty", valid |-> FALSE, M |-> ""],
     [fmt |-> "other", valid |-> FALSE, M |-> ""],
     [fmt |-> "string", valid |-> FALSE, M |-> ""]}
    \cup {[fmt |-> "string", valid |-> TRUE, M |-> m] : m \in Methods}
    \cup {[fmt |-> "map", valid |-> TRUE, M |-> m] :
             m \in {"WS_SERVER_NOTIFY_GROUP_CHAT", ""}}

\* strings.ToUpper on the methods above
ToUpper(m) == IF m = "pong" THEN "PONG" ELSE m

\* where a panic is raised while the frame is handled
Faults == {"none", "decode", "route"}

\* a panic leaves the handler: never, each handler defers a recover
PanicEscapesAlways(fault) == fault # "none"

PanicEscapes(fault) == FALSE

\* Client.handleSocketData: the handler the frame is routed to
handleSocketData(frame, fault) ==
    IF frame.fmt = "empty" THEN "none"
    ELSE IF fault = "decode" THEN "none"
    ELSE IF frame.fmt = "other" \/ ~frame.valid THEN "none"
    ELSE IF fault = "route" THEN "none"
    ELSE CASE ToUpper(frame.M) \in {"HEART_BEAT", "PONG"} -> "handleHeartbeatMessage"
           [] ToUpper(frame.M) = "WS_SERVER_NOTIFY_PRIVATE_CHAT" -> "handlePrivateChatMessage"
           [] ToUpper(frame.M) \in {"WS_SERVER_NOTIFY_GROUP_CHAT",
                                    "WS_SERVER_NOTIFY_GROUP_ROLE"} -> "handleGroupChatMessage"
           [] OTHER -> "none"

\* the "message" handler
MessageEvent(frame, fault) ==
    /\ sock.alive /\ sock.socket = "open" /\ sock.live
    /\ sock.frames < MaxFrames
    /\ frame.fmt = "empty" => fault = "none"
    /\ sock' =
         IF fault # "none" /\ PanicEscapes(fault)
         THEN [sock EXCEPT !.alive = FALSE, !.connected = FALSE, !.live = FALSE,
                           !.frames = @ + 1, !.frame = frame, !.fault = fault,
                           !.routed = "none"]
         ELSE [sock EXCEPT !.frames = @ + 1, !.frame = frame, !.fault = fault,
                           !.panics = @ + (IF fault = "none" THEN 0 ELSE 1),
                           !.routed = handleSocketData(frame, fault)]

SockInit == RelayIdle /\ TokIdle /\ SvcIdle /\ DispIdle /\ ApiIdle

SockNext ==
    \/ \E ok \in BOOLEAN : ClientStart(ok)
    \/ ClientStop
    \/ ConnectEvent
    \/ TransportLost
    \/ DisconnectEvent
    \/ \E ev \in {"connect_error", "error"} : ErrorEvent(ev)
    \/ \E o \in {"ok", "error", "panic"}, d \in BOOLEAN : startHeartbeat(o, d)
    \/ \E f \in Frames, ft \in Faults : MessageEvent(f, ft)

SpecSock ==
    SockInit /\ [][SockNext /\ UNCHANGED <<relayVars, tokVars, svc, disp, pager,
                                           blockVars, sup, note, cm, mgr>>]_vars

\* C24: when sending a heartbeat frame fails while the session believes it is
\* connected, is_connected() is false afterwards, and no further heartbeat
\* is sent after a failed one until the session has connected again
C24_FailedBeatMarksDead ==
    [][/\ (sock'.emits > sock.emits /\ sock'.beat = "failed") => ~IsConnected(sock')
       /\ (sock'.emits > sock.emits) => sock.beat # "failed"]_vars

\* what the code does: a heartbeat send, failed or not, leaves c.connected
\* and the socket as they were
C24_BeatLeavesConnected ==
    [][sock'.emits > sock.emits
       => (sock'.connected = sock.connected /\ sock'.socket = sock.socket)]_vars

\* a heartbeat send has failed and the session still counts as connected
C24_FailedStillConnected ==
    sock.beat = "failed" /\ IsConnected(sock) /\ sock.emits > 0

\* the steps the session takes by itself: the ticks of its heartbeat
\* goroutines.  Start and Stop are calls of its owner, the events are the
\* library's and the server's
SessionStep ==
    /\ \E o \in {"ok", "error", "panic"}, d \in BOOLEAN : startHeartbeat(o, d)
    /\ UNCHANGED <<relayVars, tokVars, svc, disp, pager, blockVars, sup, note, cm, mgr>>

SpecSockFair == SpecSock /\ WF_vars(SessionStep)

\* C25: after a disconnect or a transport error of a started session that
\* has not been stopped, the session eventually makes a new connect attempt
\* (the loss is over: a connect was tried or the session connected again)
C25_EventuallyReconnects ==
    (sock.lost /\ ~sock.stopped) ~> (~sock.lost \/ sock.stopped)

\* the session was connected, has been disconnected and is not stopped
C25_Disconnected ==
    /\ sock.lost /\ ~sock.stopped /\ sock.socket = "open"
    /\ sock.loops > 0 /\ ~IsConnected(sock)

\* the handler of a well-formed frame, by its method
HandlerOf(frame) ==
    IF frame.fmt \notin {"string", "map"} \/ ~frame.valid THEN "none"
    ELSE IF frame.M \in {"HEART_BEAT", "PONG", "pong"} THEN "handleHeartbeatMessage"
    ELSE IF frame.M = "WS_SERVER_NOTIFY_PRIVATE_CHAT" THEN "handlePrivateChatMessage"
    ELSE IF frame.M \in {"WS_SERVER_NOTIFY_GROUP_CHAT", "WS_SERVER_NOTIFY_GROUP_ROLE"}
         THEN "handleGroupChatMessage"
    ELSE "none"

\* C26: a panic raised while one inbound frame is decoded or routed is
\* contained: the session goes on, its connection state is what it was, and
\* every frame handled after a panic is routed to the handler of its method
C26_PanicContained ==
    /\ [](/\ sock.alive
          /\ (sock.panics > 0 /\ sock.fault = "none")
             => sock.routed = HandlerOf(sock.frame))
    /\ [][sock'.panics > sock.panics
          => /\ sock'.connected = sock.connected
             /\ sock'.live = sock.live
             /\ sock'.socket = sock.socket]_vars

\* after a frame whose handling panicked, a private chat frame was routed
\* and the session is connected
C26_Witness ==
    /\ sock.panics > 0 /\ sock.frames = 2 /\ sock.fault = "none"
    /\ sock.routed = "handlePrivateChatMessage"
    /\ IsConnected(sock)

\* ---------------------------------------------------------------- SpecFail
\* One relay task taken step by step through processChatMessage, with the
\* reads of the store failing or not and the Dispatcher calls, which the task
\* waits for, returning an error or not.  task.log lists what the task did:
\* the dedup read, the start and the return of each Dispatcher call.

\* processChatMessage: an error of IsNotifiedPin ends it
DropOnReadErrNever(readErr) == FALSE

DropOnReadErr(readErr) == readErr

\* processChatMessage up to the recipient list; readErr is whether
\* IsNotifiedPin returns an error
DedupRead(t, readErr) ==
    LET env  == task[t].env
        info == parseMessageInfo(env)
        read == env.msg.kind # "nil" /\ info.PinId # ""
    IN  /\ task[t].pc = "dedup"
        /\ readErr => read
        /\ task' = [task EXCEPT
             ![t].pc =
                IF env.msg.kind = "nil" THEN "done"
                ELSE IF read /\ DropOnReadErr(readErr) THEN "done"
                ELSE IF read /\ ~readErr /\ info.PinId \in notifiedPins THEN "done"
                ELSE IF NoRecipients(env.repost) THEN "done"
                ELSE "filter",
             ![t].i = 1,
             ![t].log = IF read
                        THEN Append(@, IF readErr THEN "readErr" ELSE "read")
                        ELSE @]
        /\ UNCHANGED <<notifiedPins, blockedChats, pinRemoved>>

\* filterBlockedUsers, one recipient per step; ioErr is whether
\* IsUserBlockedChat returns an error for this recipient
FilterLookup(t, ioErr) ==
    LET env    == task[t].env
        info   == parseMessageInfo(env)
        i      == task[t].i
        u      == env.repost[i]
        lookup == ~(info.ChatType = "private_chat" /\ u = info.MetaId)
                  /\ ChatIdOf(info) # ""
    IN  /\ task[t].pc = "filter"
        /\ IF i <= Len(env.repost)
           THEN /\ ioErr => lookup
                /\ task' = [task EXCEPT
                     ![t].filtered =
                        FilterWith(info, @, u,
                                   IF ioErr THEN "err"
                                   ELSE IsUserBlockedChat(blockedChats, u, ChatIdOf(info))),
                     ![t].looked = IF lookup THEN @ \cup {u} ELSE @,
                     ![t].failed = IF ioErr THEN @ \cup {u} ELSE @,
                     ![t].i = i + 1]
           ELSE /\ ~ioErr
                /\ task' = [task EXCEPT ![t].pc = "mention"]
        /\ UNCHANGED <<notifiedPins, blockedChats, pinRemoved>>

\* the task after it has started a Dispatcher call: SendToUsersWithData
\* returns when the call is over, the task waits for it
StartedAsync(kind) == IF kind = "mention" THEN "plain" ELSE "record"

Started(kind) == IF kind = "mention" THEN "mentionWait" ELSE "plainWait"

\* processChatMessage goes on after a Dispatcher error: it is only logged
AbortOnErrAlways(err) == err

AbortOnErr(err) == FALSE

\* the Dispatcher call for the mentioned users starts, if there are any
MentionCall(t) ==
    LET env == task[t].env
    IN  /\ task[t].pc = "mention"
        /\ task' = IF Len(env.mention) > 0
                   THEN [task EXCEPT
                           ![t].pc = Started("mention"),
                           ![t].calls = Append(@, [kind |-> "mention", to |-> env.mention]),
                           ![t].log = Append(@, "mention")]
                   ELSE [task EXCEPT ![t].pc = "plain"]
        /\ UNCHANGED <<notifiedPins, blockedChats, pinRemoved>>

\* the Dispatcher call for the mentioned users returns
MentionReturn(t, err) ==
    /\ task[t].pc = "mentionWait"
    /\ task' = [task EXCEPT
         ![t].pc = IF AbortOnErr(err) THEN "done" ELSE "plain",
         ![t].log = Append(@, IF err THEN "mentionErr" ELSE "mentionRet")]
    /\ UNCHANGED <<notifiedPins, blockedChats, pinRemoved>>

\* the Dispatcher call for the normal users starts, if there are any
PlainCall(t) ==
    LET env    == task[t].env
        normal == NormalUsers(task[t].filtered, env.mention)
    IN  /\ task[t].pc = "plain"
        /\ task' = IF Len(normal) > 0
                   THEN [task EXCEPT
                           ![t].pc = Started("plain"),
                           ![t].calls = Append(@, [kind |-> "plain", to |-> normal]),
                           ![t].log = Append(@, "plain")]
                   ELSE [task EXCEPT ![t].pc = "record"]
        /\ UNCHANGED <<notifiedPins, blockedChats, pinRemoved>>

\* the Dispatcher call for the normal users returns
PlainReturn(t, err) ==
    /\ task[t].pc = "plainWait"
    /\ task' = [task EXCEPT
         ![t].pc = IF AbortOnErr(err) THEN "done" ELSE "record",
         ![t].log = Append(@, IF err THEN "plainErr" ELSE "plainRet")]
    /\ UNCHANGED <<notifiedPins, blockedChats, pinRemoved>>

FailInit ==
    /\ notifiedPins \in {{}, {"p1"}}
    /\ blockedChats \in {[u \in Users |-> <<>>],
                         [u \in Users |-> IF u = "u1" THEN <<"g1">> ELSE <<"u1">>]}
    /\ task = [t \in Tasks |-> IdleTask]
    /\ pinRemoved = {}
    /\ TokIdle /\ SvcIdle /\ DispIdle /\ ApiIdle

FailNext ==
    \/ \E env \in Envelopes : Receive("t1", env)
    \/ \E e \in BOOLEAN : DedupRead("t1", e)
    \/ \E e \in BOOLEAN : FilterLookup("t1", e)
    \/ MentionCall("t1")
    \/ \E e \in BOOLEAN : MentionReturn("t1", e)
    \/ PlainCall("t1")
    \/ \E e \in BOOLEAN : PlainReturn("t1", e)
    \/ Record("t1")
    \/ AddNotifiedPin("t1")

SpecFail ==
    FailInit /\ [][FailNext /\ UNCHANGED <<tokVars, svc, disp, apiVars>>]_vars

\* the places of an event in the log of the task
At(ev) == {i \in 1..Len(task["t1"].log) : task["t1"].log[i] = ev}

Returned(kind) ==
    IF kind = "mention" THEN At("mentionRet") \cup At("mentionErr")
    ELSE At("plainRet") \cup At("plainErr")

\* C27: in the processing of one envelope the dedup read comes before every
\* Dispatcher call, the mention call has returned before the plain call
\* starts, and the write of the PIN record is issued only after the
\* Dispatcher calls have returned
C27_StepOrder ==
    Received("t1")
    => /\ (At("mention") \cup At("plain") # {} /\ InfoOf("t1").PinId # "")
          => \A i \in At("mention") \cup At("plain") : \E r \in At("read") : r < i
       /\ \A i \in At("mention"), j \in At("plain") :
             \E k \in Returned("mention") : i < k /\ k < j
       /\ task["t1"].pc = "addpin"
          => /\ At("mention") # {} => Returned("mention") # {}
             /\ At("plain") # {} => Returned("plain") # {}

\* both calls were made and have returned, and the PIN write is issued
C27_Witness ==
    /\ task["t1"].pc = "addpin"
    /\ task["t1"].log = <<"read", "mention", "mentionRet", "plain", "plainRet">>

\* C28: when the dedup lookup fails for an envelope with a pin_id, the
\* envelope is dropped: no Dispatcher call is made for it and no PIN record
\* is written
C28_ReadErrDrops ==
    /\ [](At("readErr") # {}
          => /\ task["t1"].calls = <<>>
             /\ task["t1"].pc = "done"
             /\ task["t1"].log = <<"readErr">>)
    /\ [][At("readErr") # {} => notifiedPins' = notifiedPins]_vars

\* the lookup failed for an envelope with recipients and a PIN not yet
\* notified
C28_Witness ==
    /\ At("readErr") # {}
    /\ Len(task["t1"].env.repost) > 0
    /\ InfoOf("t1").PinId \notin notifiedPins
    /\ task["t1"].pc = "done"

\* C29: in the mute filter a recipient whose lookup returns an error is
\* treated as not blocked and stays in the filtered recipients, and with an
\* empty chat_id no recipient is looked up and all are kept
C29_FilterKeepsOnError ==
    Received("t1")
    => /\ \A u \in task["t1"].failed : Contains(task["t1"].filtered, u)
       /\ ChatIdOf(InfoOf("t1")) = ""
          => /\ task["t1"].looked = {}
             /\ task["t1"].pc \notin {"dedup", "filter"} /\ task["t1"].i > 1
                => task["t1"].filtered = task["t1"].env.repost

\* a recipient who has the chat blocked was kept because the lookup failed
C29_Witness ==
    \E u \in Users :
        /\ u \in task["t1"].failed
        /\ Contains(blockedChats[u], ChatIdOf(InfoOf("t1")))
        /\ Contains(task["t1"].filtered, u)
        /\ \E i \in 1..Len(task["t1"].calls) :
              task["t1"].calls[i].kind = "plain" /\ Contains(task["t1"].calls[i].to, u)

\* C30: a Dispatcher error returned by the mention call does not abort the
\* envelope: the plain call is made when the plain set is not empty, and the
\* PIN is recorded
C30_MentionErrGoesOn ==
    (At("mentionErr") # {} /\ task["t1"].pc = "done")
    => /\ Len(NormalUsers(task["t1"].filtered, task["t1"].env.mention)) > 0
          => \E i \in 1..Len(task["t1"].calls) : task["t1"].calls[i].kind = "plain"
       /\ InfoOf("t1").PinId # "" => InfoOf("t1").PinId \in notifiedPins

\* the mention call failed, the plain call was made and the PIN is recorded
C30_Witness ==
    /\ task["t1"].pc = "done"
    /\ task["t1"].log = <<"read", "mention", "mentionErr", "plain", "plainRet">>
    /\ InfoOf("t1").PinId = "p1" /\ "p1" \in notifiedPins

\* ---------------------------------------------------------------- C31
\* the answer of one network call reports an API-level error: a non-empty
\* errors list, or a ticket of status "error"
ApiLevelError(answer) ==
    \/ answer.outcome = "apiErrors"
    \/ /\ answer.outcome = "tickets"
       /\ \E i \in 1..Len(answer.tickets) : answer.tickets[i] = "error"

\* C31: an attempt whose response reports an API-level error is the last
\* attempt of the call, whatever maxRetries is: the call is finished, no further
\* network attempt follows it (one attempt when it was the first answer), and
\* the results it concerns are failed with an error
C31_ApiErrorTerminal ==
    \A n \in 1..Len(svc.answers) :
        ApiLevelError(svc.answers[n])
        => /\ n = Len(svc.answers)
           /\ svc.attempts = n
           /\ svc.pc = "done"
           /\ \A i \in 1..Len(svc.results) :
                 (\/ svc.answers[n].outcome = "apiErrors"
                  \/ (i <= Len(svc.answers[n].tickets)
                      /\ svc.answers[n].tickets[i] = "error"))
                 => ~svc.results[i].Success /\ svc.results[i].Error # ""

\* the first answer of a call with maxRetries 3 is an errors list: one attempt
C31_Witness ==
    /\ svc.pc = "done" /\ svc.maxRetries = 3 /\ svc.fn = "batch"
    /\ svc.attempts = 1
    /\ svc.answers[1].outcome = "apiErrors"
    /\ Len(svc.results) = 2 /\ ~svc.results[2].Success

\* ================================================================ SpecColl
\* CollectionManager: tasks calling GetCollection side by side, and CloseAll.
\* Each section under cm.mu is one step: the read under RLock, the check and
\* open under Lock, the close of everything under Lock.

\* the largest number of databases pebble.Open opens
MaxOpens == 3

\* the second look under the write lock is left out
DoubleCheckSkipped(exists) == FALSE

\* if db, exists := cm.collections[collectionName]; exists (under cm.mu.Lock)
DoubleCheck(exists) == exists

\* GetCollection returns db to g
GetReturns(c, g, name, db) ==
    [c EXCEPT !.get[g] = [pc |-> "idle", name |-> name, db |-> db, err |-> FALSE],
              !.given[name] = @ \cup {db}]

\* GetCollection, the section under RLock: the handle of the map, or on to the
\* write lock
GetCollection(g, name) ==
    /\ cm.get[g].pc = "idle"
    /\ cm' = IF cm.collections[name] # 0
             THEN [GetReturns(cm, g, name, cm.collections[name]) EXCEPT !.last = "get"]
             ELSE [cm EXCEPT !.get[g] = [pc |-> "slow", name |-> name, db |-> 0,
                                        err |-> FALSE],
                             !.last = "get"]

\* GetCollection, the section under Lock: the second look, pebble.Open, the
\* store into the map
GetCollectionLocked(g, openOk) ==
    /\ cm.get[g].pc = "slow"
    /\ LET name == cm.get[g].name
           db == cm.handles + 1
       IN  IF DoubleCheck(cm.collections[name] # 0)
           THEN cm' = [GetReturns(cm, g, name, cm.collections[name])
                         EXCEPT !.last = "get"]
           ELSE /\ cm.handles < MaxOpens
                /\ cm' = IF openOk
                         THEN [GetReturns(cm, g, name, db)
                                 EXCEPT !.collections[name] = db,
                                        !.opened[name] = @ + 1,
                                        !.handles = db,
                                        !.last = "open"]
                         ELSE [cm EXCEPT !.get[g] = [pc |-> "idle", name |-> name,
                                                    db |-> 0, err |-> TRUE],
                                         !.last = "openErr"]

\* the map after CloseAll when the fresh map is not installed
KeepCollections(collections) == collections

\* cm.collections = make(map[string]*pebble.DB)
FreshCollections(collections) == [n \in Collections |-> 0]

\* CloseAll: every database of the map is closed, with or without an error of
\* Close, and the map is replaced by an empty one
CloseAll(closeErr) ==
    /\ closeErr => \E n \in Collections : cm.collections[n] # 0
    /\ cm' = [cm EXCEPT !.collections = FreshCollections(@),
                        !.shutdown = TRUE,
                        !.closeErr = closeErr,
                        !.last = "closeAll"]

CollInit ==
    /\ cm = IdleColl
    /\ RelayIdle /\ TokIdle /\ SvcIdle /\ DispIdle
    /\ pager = IdlePager /\ BlockIdle /\ SupIdle /\ NoteIdle /\ SockIdle /\ MgrIdle

CollNext ==
    \/ \E g \in Getters, n \in Collections : GetCollection(g, n)
    \/ \E g \in Getters, ok \in BOOLEAN : GetCollectionLocked(g, ok)
    \/ \E e \in BOOLEAN : CloseAll(e)

SpecColl ==
    CollInit /\ [][CollNext /\ UNCHANGED <<relayVars, tokVars, svc, disp, pager,
                                           blockVars, sup, note, sock, mgr>>]_vars

\* the collections in the map
OpenCollections == {n \in Collections : cm.collections[n] # 0}

\* C32: until CloseAll is called, the database of a collection is opened at
\* most once however the GetCollection calls interleave, and every caller that
\* was given a handle was given the one in the map; right after CloseAll no
\* collection is open
C32_OpenOnceCloseAll ==
    /\ ~cm.shutdown
       => \A n \in Collections :
             /\ cm.opened[n] <= 1
             /\ cm.given[n] # {} => cm.opened[n] = 1 /\ cm.given[n] = {cm.collections[n]}
    /\ cm.last = "closeAll" => OpenCollections = {}

\* both tasks found the collection missing under RLock, one opened it, and both
\* were given the same handle
C32_Witness ==
    /\ ~cm.shutdown
    /\ cm.last = "get"
    /\ \A g \in Getters :
          /\ cm.get[g].pc = "idle" /\ cm.get[g].name = "user_tokens"
          /\ cm.get[g].db = 1
    /\ cm.opened["user_tokens"] = 1
    /\ cm.collections["blocked_chats"] = 0 /\ cm.handles = 1

\* ---------------------------------------------------------------- C33
\* IsBlockedChat on the stored records
IsBlockedChat(recs, userId, chatId) ==
    Contains(getUserBlockedChatsFromDB(recs, userId), chatId)

\* C33: a chat that add_blocked_chat has stored for a user stays blocked for
\* that user until a remove_blocked_chat call for that user and that chat takes
\* it out: no step of a call for another chat of the user ends it
C33_BlockedUntilRemoved ==
    [][\A u \in Users, ch \in Chats :
          (IsBlockedChat(blockRecs, u, ch) /\ ~IsBlockedChat(blockRecs', u, ch))
          => \E c \in Callers :
                /\ bcall[c].pc = "write" /\ bcall'[c].pc = "done"
                /\ bcall[c].op = "remove"
                /\ bcall[c].userId = u /\ bcall[c].chatId = ch]_vars

\* ================================================================ SpecHooks
\* The socket Manager and the hooks of its Client: the consumer's setters,
\* Manager.Start and Stop, and the events of the socket that fire a hook.
\* A hook is "nil", "default" (the logging closure Manager.Start installs) or
\* "consumer" (a handler given to a setter).

\* the largest number of socket events
MaxHookEvents == 3

\* the hook the Client calls on an event
HookOf(c, event) ==
    CASE event = "connect" -> c.OnConnect
      [] event = "disconnect" -> c.OnDisconnect
      [] OTHER -> c.OnError

\* go c.OnX(): the hook of the event as it is now, none for a nil hook
Fire(c, event) ==
    IF HookOf(c, event) = "nil"
    THEN c
    ELSE [c EXCEPT !.fired = [event |-> event, hook |-> HookOf(c, event),
                              registered |-> event \in c.registered]]

\* Manager.SetConnectHandler
SetConnectHandler(c, handler) ==
    [c EXCEPT !.OnConnect = handler, !.registered = @ \cup {"connect"}]

\* Manager.SetDisconnectHandler
SetDisconnectHandler(c, handler) ==
    [c EXCEPT !.OnDisconnect = handler, !.registered = @ \cup {"disconnect"}]

\* Manager.SetErrorHandler
SetErrorHandler(c, handler) ==
    [c EXCEPT !.OnError = handler, !.registered = @ \cup {"error"}]

\* a consumer calls one setter of the Manager
SetHandler(event) ==
    mgr' = CASE event = "connect" -> SetConnectHandler(mgr, "consumer")
             [] event = "disconnect" -> SetDisconnectHandler(mgr, "consumer")
             [] OTHER -> SetErrorHandler(mgr, "consumer")

\* PushCenter.Initialize: the three hooks of the supervisor
Initialize ==
    mgr' = SetErrorHandler(SetDisconnectHandler(SetConnectHandler(mgr, "consumer"),
                                                "consumer"), "consumer")

\* Manager.Start: the three default hooks are assigned, then Client.Start
ManagerStart(connectOk) ==
    /\ mgr.starts < MaxConnects
    /\ LET c == [mgr EXCEPT !.OnConnect = "default", !.OnDisconnect = "default",
                            !.OnError = "default", !.starts = @ + 1]
       IN  mgr' = IF c.socket # "nil" /\ c.connected
                  THEN c
                  ELSE IF connectOk
                       THEN [c EXCEPT !.socket = "set"]
                       ELSE Fire(c, "error")

\* Manager.Stop: Client.Stop
ManagerStop ==
    /\ mgr.socket # "nil"
    /\ mgr' = Fire([mgr EXCEPT !.socket = "nil", !.connected = FALSE], "disconnect")

\* an event of the socket: the handler set up by setupEventHandlers runs
HookEvent(event) ==
    /\ mgr.socket # "nil"
    /\ mgr.events < MaxHookEvents
    /\ LET c == [mgr EXCEPT !.events = @ + 1,
                            !.connected = CASE event = "connect" -> TRUE
                                            [] event = "disconnect" -> FALSE
                                            [] OTHER -> @]
       IN  mgr' = Fire(c, event)

HooksInit ==
    /\ mgr = IdleMgr
    /\ RelayIdle /\ TokIdle /\ SvcIdle /\ DispIdle
    /\ pager = IdlePager /\ BlockIdle /\ SupIdle /\ NoteIdle /\ SockIdle /\ CollIdle

HooksNext ==
    \/ \E e \in {"connect", "disconnect", "error"} : SetHandler(e)
    \/ Initialize
    \/ \E ok \in BOOLEAN : ManagerStart(ok)
    \/ ManagerStop
    \/ \E e \in {"connect", "disconnect", "error"} : HookEvent(e)

SpecHooks ==
    HooksInit /\ [][HooksNext /\ UNCHANGED <<relayVars, tokVars, svc, disp, pager,
                                             blockVars, sup, note, sock, cm>>]_vars

\* C34: a hook fired for an event for which the consumer had registered a
\* handler is the consumer's handler
C34_RegisteredHooksFire ==
    mgr.fired.registered => mgr.fired.hook = "consumer"

\* what does hold: a hook fired after Manager.Start is the one assigned last,
\* the default of Start unless a setter was called after Start
C34_LastAssignedFires ==
    [][(mgr'.fired # mgr.fired) => mgr'.fired.hook = HookOf(mgr', mgr'.fired.event)]_vars

\* ---------------------------------------------------------------- C35
\* the (recipient, platform) pairs of the call that hold a token on a platform
\* with a registered provider
Routable ==
    {mp \in Range(disp.metaIds) \X Platforms :
        /\ GetUserTokens(userTokens, mp[1])[mp[2]] # ""
        /\ mp[2] \in disp.providers}

\* the number of results for (meta_id, platform)
ResultsFor(m, p) ==
    BagCardinality([r \in {x \in BagToSet(disp.results) :
                              x.MetaID = m /\ x.Platform = p} |-> disp.results[r]])

\* C35: the BatchPushResult of a returned SendToUsers call holds one PushResult
\* for every (recipient, platform) token with a registered provider and no
\* other, so a token of a platform without provider gives no result and no
\* failure; SuccessCount + FailureCount is the number of results and
\* TotalPlatforms the number of distinct platforms in the results
C35_BatchResultCounts ==
    disp.pc = "done"
    => /\ \A mp \in Routable : ResultsFor(mp[1], mp[2]) = 1
       /\ BagCardinality(disp.results) = Cardinality(Routable)
       /\ disp.batch.SuccessCount + disp.batch.FailureCount
             = BagCardinality(disp.results)
       /\ disp.batch.FailureCount
             = Cardinality({mp \in Routable :
                              \E r \in BagToSet(disp.results) :
                                 r.MetaID = mp[1] /\ r.Platform = mp[2] /\ ~r.Success})
       /\ disp.batch.TotalPlatforms
             = Cardinality({r.Platform : r \in BagToSet(disp.results)})

\* a call for two recipients has returned, one with an expo token that was
\* sent and one with a token of a platform without provider only
C35_Witness ==
    /\ disp.pc = "done" /\ disp.metaIds = <<"A", "B">>
    /\ disp.providers = {"expo"}
    /\ GetUserTokens(userTokens, "A")["expo"] # ""
    /\ GetUserTokens(userTokens, "B")["expo"] = ""
    /\ GetUserTokens(userTokens, "B")["fcm"] # ""
    /\ disp.batch.SuccessCount = 1 /\ disp.batch.FailureCount = 0
    /\ disp.batch.TotalPlatforms = 1 /\ disp.batch.TotalUsers = 2

\* ---------------------------------------------------------------- C36
\* C36: after any sequence of set_user_token, remove_user_token and
\* delete_user_tokens calls made one after the other, no token is in the token
\* maps of two meta ids, under the same platform name or under two
C36_TokenOneOwner ==
    \A u1, u2 \in TokUsers, p1, p2 \in Platforms :
        (u1 # u2 /\ GetUserTokens(userTokens, u1)[p1] # "")
        => GetUserTokens(userTokens, u1)[p1] # GetUserTokens(userTokens, u2)[p2]

\* ---------------------------------------------------------------- C37
\* C37: a finished task whose envelope has a pin_id and recipients has its PIN
\* in notified_pins (unless an operator removed it), also when the mute filter
\* and self-suppression left nobody and no Dispatcher call was made; and a task
\* that reads the dedup record of a recorded PIN ends there with no call
C37_MutedStillRecorded ==
    /\ [](\A t \in Tasks :
            (/\ task[t].pc = "done"
             /\ InfoOf(t).PinId # ""
             /\ Len(task[t].env.repost) > 0
             /\ InfoOf(t).PinId \notin pinRemoved)
            => InfoOf(t).PinId \in notifiedPins)
    /\ [][\A t \in Tasks :
            (/\ task[t].pc = "dedup" /\ task'[t].pc # "dedup"
             /\ InfoOf(t).PinId # ""
             /\ InfoOf(t).PinId \in notifiedPins)
            => task'[t].pc = "done" /\ task'[t].calls = <<>>]_vars

\* the first envelope went through the filter, nobody was left, no call was
\* made and its PIN is recorded; the second envelope with that PIN ended at the
\* dedup read
C37_Witness ==
    /\ task["t1"].pc = "done" /\ task["t2"].pc = "done"
    /\ pinRemoved = {}
    /\ InfoOf("t1").PinId # "" /\ InfoOf("t1").PinId \in notifiedPins
    /\ Len(task["t1"].env.repost) > 0
    /\ task["t1"].i = Len(task["t1"].env.repost) + 1
    /\ task["t1"].filtered = <<>> /\ task["t1"].calls = <<>>
    /\ InfoOf("t2").PinId = InfoOf("t1").PinId
    /\ Len(task["t2"].env.repost) > 0
    /\ task["t2"].i = 1 /\ task["t2"].calls = <<>>

\* ---------------------------------------------------------------- C38
\* C38: a task whose envelope has an empty repost_meta_ids makes no Dispatcher
\* call, also with mention_meta_ids not empty, never gets past the recipient
\* check, and no step of it changes notified_pins, also with a pin_id
C38_NoRecipientsNoEffect ==
    /\ [](\A t \in Tasks :
            (Received(t) /\ Len(task[t].env.repost) = 0)
            => /\ task[t].calls = <<>>
               /\ task[t].pc \in {"dedup", "done"})
    /\ [][\A t \in Tasks :
            (/\ Received(t) /\ Len(task[t].env.repost) = 0
             /\ task'[t] # task[t])
            => notifiedPins' = notifiedPins]_vars

\* an envelope with a pin_id that is not recorded, a mention and no recipient
\* was dropped
C38_Witness ==
    \E t \in Tasks :
        /\ task[t].pc = "done"
        /\ task[t].env.msg.kind = "map"
        /\ Len(task[t].env.repost) = 0
        /\ Len(task[t].env.mention) > 0
        /\ InfoOf(t).PinId # ""
        /\ notifiedPins = {} /\ pinRemoved = {}

\* ---------------------------------------------------------------- C39
\* a body of the Candy Bag rows of the table
CandyBagBody(body) ==
    /\ Len(body) >= 10
    /\ SubSeq(body, Len(body) - 9, Len(body)) = " Candy Bag"

\* C39: for a private_chat envelope the chat_info_type the relay composes with
\* is 0 whatever D.message.chatType holds, and the body is no Candy Bag body
C39_PrivateNeverCandyBag ==
    (note.relayed /\ note.msgType = "private_chat")
    => /\ note.chatInfoType = 0
       /\ ~CandyBagBody(note.body)

\* a private_chat envelope whose message has chatType 1 was composed
C39_Witness ==
    /\ note.relayed /\ note.msgType = "private_chat"
    /\ note.raw = [kind |-> "float64", tenths |-> 10]
    /\ note.userName = "Bob" /\ ~note.isMention
    /\ note.body = "Bob sent you a message"

\* ---------------------------------------------------------------- C40
\* the startHeartbeat goroutines that have not returned
LiveHeartbeats == sock.loops - sock.returned

\* C40: a heartbeat goroutine that had a tick with the session not connected
\* has returned, so that with every goroutine but the newest having had such a
\* tick at most one is alive (and one frame is sent per tick period)
C40_OneHeartbeatTask ==
    /\ sock.returned = sock.sawDown
    /\ (sock.sawDown >= sock.loops - 1) => LiveHeartbeats <= 1

\* what the code does: no heartbeat goroutine ever returns, one more runs
\* after each connect event
C40_HeartbeatsNeverEnd ==
    sock.returned = 0 /\ LiveHeartbeats = sock.loops

\* the goroutine of the first connect had its tick while disconnected, and
\* after the second connect two goroutines send heartbeats
C40_TwoHeartbeats ==
    /\ sock.loops = 2 /\ sock.sawDown = 1 /\ LiveHeartbeats = 2
    /\ IsConnected(sock) /\ sock.emits > 0

====
